---- MODULE Spec2Model ----
(***************************************************************************)
(* Model of the conversion orchestration of composite-hkxtools             *)
(* (src/src/main.rs): the GUI frame handler handle_conversion, the batch   *)
(* validation start_conversion, the orchestrator run_conversion_async and  *)
(* the per-job tasks it spawns, with the progress channel (tokio unbounded *)
(* mpsc) and the cancel channel (tokio oneshot) between them (Spec,        *)
(* FairSpec); of the path resolver get_output_path_static as the          *)
(* dispatch loop calls it for the inputs of a batch (ResolverSpec); and of *)
(* the tool branches of run_conversion_tool with the files they read and   *)
(* write, for the jobs of one batch (ToolSpec); and of the handlers of the *)
(* window that fill the file list and choose the tool, the filter and the  *)
(* format, up to the start of a batch (UiSpec).                            *)
(***************************************************************************)
EXTENDS Naturals, Integers, Sequences, FiniteSets, TLC

\* Largest number of input files in the list of the application.
MaxInputs == 2
\* Largest number of inputs, summed over the batches that pass validation in
\* one run of the application (each batch holds at least one input).
MaxJobs == 2
\* Largest number of inputs of the batch whose paths and files are followed in
\* detail.
MaxBatchLen == 3

VARIABLES
    input_paths,        \* HkxToolsApp.input_paths: sequence of file names
    output_folder,      \* HkxToolsApp.output_folder: "None" or a folder
    output_format,      \* HkxToolsApp.output_format
    skeleton_file,      \* HkxToolsApp.skeleton_file: "None" or a file
    output_folder_manually_set, \* HkxToolsApp.output_folder_manually_set
    conversion_status,  \* HkxToolsApp.conversion_status
    progress_rx,        \* HkxToolsApp.progress_rx: 0 (None) or the batch whose receiver is held
    cancel_tx,          \* HkxToolsApp.cancel_tx: 0 (None) or the batch whose sender is held
    nbatches,           \* number of orchestrator tasks spawned so far
    batch_inputs,       \* per batch: the input_paths cloned at start_conversion
    progress,           \* per batch: every ConversionProgress sent on progress_tx, in order
    received,           \* per batch: how many of them the receiver has taken
    cancel,             \* per batch: state of the oneshot cancel channel
    cancel_at,          \* per batch: where the orchestrator stood when cancel was sent
    orch,               \* per batch: position and locals of run_conversion_async
    job,                \* per batch, per input: state of the spawned job task
    args,               \* the arguments of the run_conversion_async under study
    output_path,        \* its output_path of each input dispatched so far
    batch,              \* its position and its completion message
    task,               \* per input: the job task spawned for it, inside run_conversion_tool
    fs,                 \* the files at the input and output paths of the batch
    app                 \* the file list and the settings of HkxToolsApp, with their paths

vars == <<input_paths, output_folder, output_format, skeleton_file,
          output_folder_manually_set, conversion_status,
          progress_rx, cancel_tx, nbatches, batch_inputs, progress, received, cancel,
          cancel_at, orch, job, args, output_path, batch, task, fs, app>>

appvars == <<input_paths, output_folder, output_format, skeleton_file,
             output_folder_manually_set>>

chanvars == <<nbatches, batch_inputs, progress, received, cancel, cancel_at, orch, job>>

\* The variables of the batch whose paths and files are followed in detail.
toolvars == <<batch, task, fs>>
jobvars == <<args, output_path, toolvars, app>>

Batches == 1..MaxJobs
Slots == 1..MaxInputs

----------------------------------------------------------------------------
(* Data types                                                              *)

FileNames == <<"a.hkx", "b.hkx", "c.hkx", "d.hkx">>

OutputFormat == {"Xml", "SkyrimLE", "SkyrimSE", "Kf"}

requires_skeleton(format) == format = "Kf"

\* enum ConversionStatus
Idle == [kind |-> "Idle"]
Running(current_file, prog, total) ==
    [kind |-> "Running", current_file |-> current_file, progress |-> prog, total |-> total]
Completed(message) == [kind |-> "Completed", message |-> message]
Error(message) == [kind |-> "Error", message |-> message]

\* struct ConversionProgress
ConversionProgress(current_file, file_index, total_files, status) ==
    [current_file |-> current_file, file_index |-> file_index,
     total_files |-> total_files, status |-> status]

\* The messages the program formats, as tuples of their parts.
MsgNoInput == <<"No input files selected">>
MsgNoOutput == <<"No output folder selected">>
MsgNoSkeleton == <<"Skeleton file is required for KF conversion">>
MsgCancelledByUser == <<"Conversion cancelled by user">>
MsgCancelled == <<"Conversion cancelled">>
MsgFailedToConvert(file_name) == <<"Failed to convert", file_name>>
MsgConvertedWithFailures(ok, total, failed) == <<"Converted", ok, total, "failed", failed>>
MsgSuccessfullyConverted(ok, total) == <<"Successfully converted", ok, total>>

ValidationMessages == {MsgNoInput, MsgNoOutput, MsgNoSkeleton}

\* States of a job task: not spawned, spawned, its running event sent, and the
\* five ways the task resolves.
JobResolved == {"ok", "tool_failed", "output_missing", "metadata_failed", "panicked"}
JobStates == {"none", "spawned", "running"} \cup JobResolved

----------------------------------------------------------------------------
(* Strings and paths. A string is the sequence of its pieces, where "." and *)
(* "_" are pieces of their own; a path is the sequence of its components    *)
(* (std::path::Path compares and splits paths by components), an absolute   *)
(* path starting with the root component. Option<T> is a sequence of at     *)
(* most one value.                                                          *)

None == <<>>
Some(v) == <<v>>
unwrap_or(o, default) == IF o = None THEN default ELSE o[1]

RootDir == <<"/">>

is_absolute(p) == Len(p) > 0 /\ p[1] = RootDir

\* Path::parent: None for the empty path and for the root.
parent(p) ==
    IF Len(p) = 0 \/ p[Len(p)] = RootDir THEN None ELSE Some(SubSeq(p, 1, Len(p) - 1))

\* Path::starts_with: `base` is a prefix of p, component by component.
starts_with(p, base) == Len(base) <= Len(p) /\ SubSeq(p, 1, Len(base)) = base

\* Path::strip_prefix: Ok(rest) when p starts with base, Err otherwise.
strip_prefix(p, base) ==
    IF starts_with(p, base) THEN Some(SubSeq(p, Len(base) + 1, Len(p))) ELSE None

\* Path::join: an absolute `q` replaces p.
join(p, q) == IF is_absolute(q) THEN q ELSE p \o q

\* Path::file_name: the last component, unless the path is empty or the root.
file_name(p) == IF Len(p) = 0 \/ p[Len(p)] = RootDir THEN None ELSE Some(p[Len(p)])

Dots(name) == {i \in 1..Len(name) : name[i] = "."}
LastDot(name) == CHOOSE i \in Dots(name) : \A j \in Dots(name) : j <= i

\* Path::file_stem: the whole file name when it holds no "." or only a
\* leading one, else the part before the last ".".
file_stem(p) ==
    IF file_name(p) = None THEN None
    ELSE LET name == file_name(p)[1] IN
         IF Dots(name) = {} \/ LastDot(name) = 1 THEN Some(name)
         ELSE Some(SubSeq(name, 1, LastDot(name) - 1))

\* Formats that all take the extension of a binary file.
extension_AlwaysHkx(format) == <<"hkx">>

\* OutputFormat::extension
extension(format) ==
    CASE format = "Xml" -> <<"xml">>
      [] format \in {"SkyrimLE", "SkyrimSE"} -> <<"hkx">>
      [] format = "Kf" -> <<"kf">>

----------------------------------------------------------------------------
(* HkxToolsApp::get_output_path_static                                     *)

\* A resolver that never mirrors the input's folders.
relative_path_Flat(input, base) == <<>>

\* let relative_path = ...: the input's parent directory relative to the base
\* folder; the parent directory itself when it is not under the base folder;
\* empty when there is no base folder.
relative_path(input, base) ==
    IF base # None
    THEN IF strip_prefix(unwrap_or(parent(input), <<>>), base[1]) # None
         THEN strip_prefix(unwrap_or(parent(input), <<>>), base[1])[1]
         ELSE unwrap_or(parent(input), <<>>)
    ELSE <<>>

\* A file name without the separator before the suffix.
output_name_NoSeparator(stem, suffix, ext) == stem \o suffix \o <<".">> \o ext

\* let output_name = ...: format!("{}.{}") or format!("{}_{}.{}")
output_name(stem, suffix, ext) ==
    IF suffix = <<>> THEN stem \o <<".">> \o ext
    ELSE stem \o <<"_">> \o suffix \o <<".">> \o ext

\* None when the input has no file stem (the names of this model are UTF-8,
\* so to_str gives Some).
get_output_path_static(input, folder, suffix, format, custom, base) ==
    IF file_stem(input) = None THEN None
    ELSE Some(join(join(folder, relative_path(input, base)),
                   <<output_name(file_stem(input)[1], suffix,
                                 IF custom # None THEN custom[1] ELSE extension(format))>>))

\* HkxToolsApp::find_common_parent_dir, on a list of inputs: the first parent
\* directory is shortened until every other parent directory starts with it.
RECURSIVE Shortened(_, _)
Shortened(common, dir) ==
    IF starts_with(dir, common) THEN Some(common)
    ELSE IF parent(common) = None THEN None
    ELSE Shortened(parent(common)[1], dir)

RECURSIVE CommonFrom(_, _, _)
CommonFrom(common, paths, i) ==
    IF i > Len(paths) THEN Some(common)
    ELSE IF parent(paths[i]) = None THEN CommonFrom(common, paths, i + 1)
    ELSE IF Shortened(common, parent(paths[i])[1]) = None THEN None
    ELSE CommonFrom(Shortened(common, parent(paths[i])[1])[1], paths, i + 1)

find_common_parent_dir(paths) ==
    LET with_parent == {i \in 1..Len(paths) : parent(paths[i]) # None} IN
    IF with_parent = {} THEN None
    ELSE LET first == CHOOSE i \in with_parent : \A j \in with_parent : i <= j IN
         CommonFrom(parent(paths[first])[1], paths, first + 1)

\* The arguments of run_conversion_async that the resolver and the job tasks
\* read.
Args(inputs, folder, suffix, format, custom, base, tool, skeleton) ==
    [input_paths |-> inputs, output_folder |-> folder, output_suffix |-> suffix,
     output_format |-> format, custom_extension |-> custom, base_folder |-> base,
     converter_tool |-> tool, skeleton_file |-> skeleton]

NoArgs == Args(<<>>, <<>>, <<>>, "Xml", None, None, "HkxCmd", None)

\* A job task that was not spawned.
NoTask ==
    [pc |-> "none", result |-> "none", exit |-> "none", temp_dir |-> 0,
     command |-> <<>>, removed_existing |-> FALSE, outcome |-> "none", events |-> <<>>]

NoBatch == [pc |-> "none", exit |-> "none", summary |-> None]

\* No batch is followed at the level of its files.
NoTasks ==
    /\ batch = NoBatch
    /\ task = [k \in 1..MaxBatchLen |-> NoTask]
    /\ fs = <<>>

----------------------------------------------------------------------------
(* Helpers on the per-batch state                                          *)

Last(s) == s[Len(s)]

Total(b) == Len(batch_inputs[b])

\* A send that waits until the receiver has taken the event sent before (a
\* channel of capacity one).
Send_Bounded(b, ev) ==
    /\ received[b] = Len(progress[b])
    /\ progress' = [progress EXCEPT ![b] = Append(@, ev)]

\* progress_tx.send(ev): the channel is unbounded, so the send never waits; the
\* result of send is discarded by the callers (let _ = ...).
Send(b, ev) == progress' = [progress EXCEPT ![b] = Append(@, ev)]

\* An orchestrator that never sees the signal.
CancelObserved_Never(b) == FALSE

\* cancel_rx.try_recv().is_ok(): true exactly when a value was sent and has not
\* been taken yet. An empty channel and a channel whose sender was dropped both
\* give Err.
CancelObserved(b) == cancel[b] = "sent"

\* A sender whose drop reaches the receiver as a signal.
DropSender_Signals(b) ==
    IF b # 0 /\ cancel[b] = "empty" THEN [cancel EXCEPT ![b] = "sent"] ELSE cancel

\* Dropping the oneshot sender without sending closes the channel.
DropSender(b) ==
    IF b # 0 /\ cancel[b] = "empty" THEN [cancel EXCEPT ![b] = "closed"] ELSE cancel

\* Inputs of the batches accepted so far.
RECURSIVE Admitted(_)
Admitted(b) == IF b = 0 THEN 0 ELSE Len(batch_inputs[b]) + Admitted(b - 1)

\* A join that does not wait for the tasks.
AllResolved_NoWait(b) == TRUE

\* join_all(tasks).await has returned: every task of the batch has resolved.

AllResolved(b) == \A k \in 1..Total(b) : job[b][k] \in JobResolved

----------------------------------------------------------------------------
(* HkxToolsApp::new                                                        *)

\* The fields of HkxToolsApp that hold the file list, the folders and the
\* selections of tool, filter and format, as HkxToolsApp::new sets them.
AppNew ==
    [input_paths |-> <<>>, output_folder |-> None, skeleton_file |-> None,
     output_format |-> "Xml", input_file_extension |-> "All", converter_tool |-> "HkxCmd",
     base_folder |-> None, output_folder_manually_set |-> FALSE]

Constructed ==
    /\ app = AppNew
    /\ input_paths = <<>>
    /\ output_folder = "None"
    /\ output_format = "Xml"
    /\ skeleton_file = "None"
    /\ output_folder_manually_set = FALSE
    /\ conversion_status = Idle
    /\ progress_rx = 0
    /\ cancel_tx = 0
    /\ nbatches = 0
    /\ batch_inputs = [b \in Batches |-> <<>>]
    /\ progress = [b \in Batches |-> <<>>]
    /\ received = [b \in Batches |-> 0]
    /\ cancel = [b \in Batches |-> "empty"]
    /\ cancel_at = [b \in Batches |-> [pc |-> "none", i |-> 0]]
    /\ orch = [b \in Batches |->
                 [pc |-> "none", i |-> 0, successful_conversions |-> 0,
                  failed_conversions |-> 0, exit |-> "none"]]
    /\ job = [b \in Batches |-> [k \in Slots |-> "none"]]

\* The application after construction; no batch is followed in detail.
Init ==
    /\ Constructed
    /\ args = NoArgs
    /\ output_path = <<>>
    /\ NoTasks

----------------------------------------------------------------------------
(* Settings edited in render_main_ui. The settings are edited before the   *)
(* first batch is started; a batch works on clones taken at its start.     *)

Editable == nbatches = 0 /\ conversion_status.kind # "Running"

\* update_output_folder: follows the first input's parent unless the user
\* chose the folder.
update_output_folder(paths) ==
    IF ~output_folder_manually_set /\ Len(paths) > 0 THEN "in" ELSE output_folder

\* Browse Files: the picked files replace the list.
BrowseFiles ==
    /\ Editable
    /\ \E n \in 1..MaxInputs :
         /\ input_paths' = SubSeq(FileNames, 1, n)
         /\ output_folder' = update_output_folder(SubSeq(FileNames, 1, n))
    /\ UNCHANGED <<output_format, skeleton_file, output_folder_manually_set,
                   conversion_status, progress_rx, cancel_tx, chanvars, jobvars>>

\* Clear All
ClearAll ==
    /\ Editable
    /\ input_paths # <<>>
    /\ input_paths' = <<>>
    /\ output_folder_manually_set' = FALSE
    /\ UNCHANGED <<output_folder, output_format, skeleton_file,
                   conversion_status, progress_rx, cancel_tx, chanvars, jobvars>>

\* The formats the user clicks in this model: one that requires a skeleton and
\* one that does not.
ClickedFormats == {"Xml", "Kf"}

\* render_output_format: a click on one of the formats of the selected tool
SelectOutputFormat ==
    /\ Editable
    /\ \E f \in ClickedFormats : f # output_format /\ output_format' = f
    /\ UNCHANGED <<input_paths, output_folder, skeleton_file, output_folder_manually_set,
                   conversion_status, progress_rx, cancel_tx, chanvars, jobvars>>

\* Skeleton File: Browse (the row is shown only for a format that requires it)
BrowseSkeleton ==
    /\ Editable
    /\ requires_skeleton(output_format)
    /\ skeleton_file = "None"
    /\ skeleton_file' = "skeleton.hkx"
    /\ UNCHANGED <<input_paths, output_folder, output_format, output_folder_manually_set,
                   conversion_status, progress_rx, cancel_tx, chanvars, jobvars>>

----------------------------------------------------------------------------
(* HkxToolsApp::start_conversion                                           *)

\* Validation without the skeleton check.
Validation_SkipsSkeleton ==
    IF Len(input_paths) = 0 THEN MsgNoInput
    ELSE IF output_folder = "None" THEN MsgNoOutput
    ELSE <<>>

\* The validation of start_conversion: the message of the first check that
\* fails, or <<>> when the batch is accepted.
Validation ==
    IF Len(input_paths) = 0 THEN MsgNoInput
    ELSE IF output_folder = "None" THEN MsgNoOutput
    ELSE IF requires_skeleton(output_format) /\ skeleton_file = "None" THEN MsgNoSkeleton
    ELSE <<>>

\* start_conversion, entered with the cancel channels as `cancel0`. A rejected
\* request only sets the status; an accepted one creates the two channels,
\* keeps the receiver and the cancel sender, sets Running and spawns the
\* orchestrator task on clones of the settings.
start_conversion(cancel0) ==
    IF Validation # <<>>
    THEN /\ conversion_status' = Error(Validation)
         /\ progress_rx' = 0
         /\ cancel_tx' = 0
         /\ cancel' = cancel0
         /\ UNCHANGED <<nbatches, batch_inputs, progress, cancel_at, orch, job>>
    ELSE /\ Admitted(nbatches) + Len(input_paths) <= MaxJobs
         /\ nbatches' = nbatches + 1
         /\ progress_rx' = nbatches + 1
         /\ cancel_tx' = nbatches + 1
         /\ cancel' = cancel0
         /\ conversion_status' = Running("Starting...", 0, Len(input_paths))
         /\ batch_inputs' = [batch_inputs EXCEPT ![nbatches + 1] = input_paths]
         /\ orch' = [orch EXCEPT ![nbatches + 1].pc = "dispatch"]
         /\ UNCHANGED <<progress, cancel_at, job>>

----------------------------------------------------------------------------
(* HkxToolsApp::handle_conversion, once per frame                          *)

\* while let Ok(progress) = progress_rx.try_recv(): every queued event is
\* taken and the status is overwritten by each, so it ends as the last one's.
Pending == progress_rx # 0 /\ received[progress_rx] < Len(progress[progress_rx])

Drained == IF Pending THEN Last(progress[progress_rx]).status ELSE conversion_status

DrainedReceived ==
    IF Pending THEN [received EXCEPT ![progress_rx] = Len(progress[progress_rx])]
    ELSE received

\* A frame in which no button is clicked.
HandleProgress ==
    /\ Pending
    /\ conversion_status' = Drained
    /\ received' = DrainedReceived
    /\ UNCHANGED <<appvars, jobvars, progress_rx, cancel_tx, nbatches, batch_inputs, progress,
                   cancel, cancel_at, orch, job>>

\* A frame in which RUN CONVERSION is clicked: the button is shown when the
\* status after the drain is Idle, Completed or Error. The status is reset,
\* the receiver and the cancel sender are dropped, then start_conversion runs.
RunClicked ==
    /\ Drained.kind \in {"Idle", "Completed", "Error"}
    /\ received' = DrainedReceived
    /\ start_conversion(DropSender(cancel_tx))
    /\ UNCHANGED <<appvars, jobvars>>

\* A cancel button that sends through a sender it keeps.
CancelClicked_KeepsSender ==
    /\ Drained.kind = "Running"
    /\ received' = DrainedReceived
    /\ conversion_status' = Idle
    /\ cancel_tx' = cancel_tx
    /\ IF cancel_tx # 0
       THEN /\ cancel' = IF orch[cancel_tx].pc # "done"
                         THEN [cancel EXCEPT ![cancel_tx] = "sent"] ELSE cancel
            /\ cancel_at' = [cancel_at EXCEPT ![cancel_tx] =
                               [pc |-> orch[cancel_tx].pc, i |-> orch[cancel_tx].i]]
       ELSE UNCHANGED <<cancel, cancel_at>>
    /\ UNCHANGED <<appvars, jobvars, progress_rx, nbatches, batch_inputs, progress, orch, job>>

\* A frame in which CANCEL CONVERSION is clicked: the button is shown when the
\* status after the drain is Running. cancel_tx.take() sends the signal if the
\* sender is still held (the send fails when the orchestrator has returned and
\* dropped the receiver); the status becomes Idle.
CancelClicked ==
    /\ Drained.kind = "Running"
    /\ received' = DrainedReceived
    /\ conversion_status' = Idle
    /\ cancel_tx' = 0
    /\ IF cancel_tx # 0
       THEN /\ cancel' = IF orch[cancel_tx].pc # "done"
                         THEN [cancel EXCEPT ![cancel_tx] = "sent"] ELSE cancel
            /\ cancel_at' = [cancel_at EXCEPT ![cancel_tx] =
                               [pc |-> orch[cancel_tx].pc, i |-> orch[cancel_tx].i]]
       ELSE UNCHANGED <<cancel, cancel_at>>
    /\ UNCHANGED <<appvars, jobvars, progress_rx, nbatches, batch_inputs, progress, orch, job>>

----------------------------------------------------------------------------
(* HkxToolsApp::run_conversion_async, the orchestrator task of batch b     *)

FileName(b, index) == batch_inputs[b][index + 1]

\* What the filesystem answers to fs::create_dir_all(parent) for one input of
\* the dispatch loop. (get_output_path_static gives Some for every input of
\* this model: the file names are UTF-8 and have a stem.)
DispatchEnv == {"ok", "create_dir_failed"}

CancelledByUserEvent(b, index) ==
    ConversionProgress("Cancelled", index, Total(b), Error(MsgCancelledByUser))

\* A dispatch loop that reports the cancellation but goes on with the input
\* (the `return` is missing).
Dispatch_GoesOn(b) ==
    /\ orch[b].pc = "dispatch"
    /\ orch[b].i < Total(b)
    /\ IF CancelObserved(b)
       THEN /\ cancel' = [cancel EXCEPT ![b] = "taken"]
            /\ Send(b, CancelledByUserEvent(b, orch[b].i))
       ELSE UNCHANGED <<cancel, progress>>
    /\ job' = [job EXCEPT ![b][orch[b].i + 1] = "spawned"]
    /\ orch' = [orch EXCEPT
                  ![b].i = IF orch[b].i + 1 = Total(b) THEN 0 ELSE @ + 1,
                  ![b].pc = IF orch[b].i + 1 = Total(b) THEN "tally" ELSE @]
    /\ UNCHANGED <<appvars, jobvars, conversion_status, progress_rx, cancel_tx, nbatches,
                   batch_inputs, received, cancel_at>>

\* One iteration of `for (index, input_path) in input_paths.iter().enumerate()`.
\* The signal is polled first; the `?` on create_dir_all returns from
\* run_conversion_async with the error; otherwise the job task is
\* spawned and the loop goes on (to join_all after the last input).
Dispatch(b) ==
    /\ orch[b].pc = "dispatch"
    /\ orch[b].i < Total(b)
    /\ IF CancelObserved(b)
       THEN /\ cancel' = [cancel EXCEPT ![b] = "taken"]
            /\ Send(b, CancelledByUserEvent(b, orch[b].i))
            /\ orch' = [orch EXCEPT ![b].pc = "done", ![b].exit = "cancelled_in_dispatch"]
            /\ UNCHANGED job
       ELSE \E env \in DispatchEnv :
              IF env = "ok"
              THEN /\ job' = [job EXCEPT ![b][orch[b].i + 1] = "spawned"]
                   /\ orch' = [orch EXCEPT
                                 ![b].i = IF orch[b].i + 1 = Total(b) THEN 0 ELSE @ + 1,
                                 ![b].pc = IF orch[b].i + 1 = Total(b) THEN "tally" ELSE @]
                   /\ UNCHANGED <<cancel, progress>>
              ELSE /\ orch' = [orch EXCEPT ![b].pc = "done", ![b].exit = env]
                   /\ UNCHANGED <<cancel, progress, job>>
    /\ UNCHANGED <<appvars, jobvars, conversion_status, progress_rx, cancel_tx, nbatches,
                   batch_inputs, received, cancel_at>>

\* A count that takes every task that returned, whatever it returned, as a success.
IsSuccess_AnyReturn(result) == result # "panicked"

\* match result { Ok(Ok(())) => success, Ok(Err(_)) | Err(_) => failure }
IsSuccess(result) == result = "ok"

CancelledEvent(b) ==
    ConversionProgress("Cancelled", orch[b].successful_conversions, Total(b),
                       Error(MsgCancelled))

\* A result loop that does not poll the signal.
Tally_NoPoll(b) ==
    /\ orch[b].pc = "tally"
    /\ orch[b].i < Total(b)
    /\ AllResolved(b)
    /\ orch' = [orch EXCEPT
                  ![b].i = @ + 1,
                  ![b].successful_conversions =
                      IF IsSuccess(job[b][orch[b].i + 1]) THEN @ + 1 ELSE @,
                  ![b].failed_conversions =
                      IF IsSuccess(job[b][orch[b].i + 1]) THEN @ ELSE @ + 1]
    /\ UNCHANGED <<appvars, jobvars, conversion_status, progress_rx, cancel_tx, nbatches,
                   batch_inputs, received, cancel, cancel_at, job, progress>>

\* One iteration of `for result in results`, after join_all has returned every
\* task's result: the signal is polled, then the result is counted.
Tally(b) ==
    /\ orch[b].pc = "tally"
    /\ orch[b].i < Total(b)
    /\ AllResolved(b)
    /\ IF CancelObserved(b)
       THEN /\ cancel' = [cancel EXCEPT ![b] = "taken"]
            /\ Send(b, CancelledEvent(b))
            /\ orch' = [orch EXCEPT ![b].pc = "done", ![b].exit = "cancelled_in_tally"]
       ELSE /\ orch' = [orch EXCEPT
                          ![b].i = @ + 1,
                          ![b].successful_conversions =
                              IF IsSuccess(job[b][orch[b].i + 1]) THEN @ + 1 ELSE @,
                          ![b].failed_conversions =
                              IF IsSuccess(job[b][orch[b].i + 1]) THEN @ ELSE @ + 1]
            /\ UNCHANGED <<cancel, progress>>
    /\ UNCHANGED <<appvars, jobvars, conversion_status, progress_rx, cancel_tx, nbatches,
                   batch_inputs, received, cancel_at, job>>

\* A completion message that is always a Completed status.
SummaryStatus_AlwaysCompleted(ok, failed, total) ==
    Completed(MsgSuccessfullyConverted(ok, total))

\* The completion message: an Error status when a job failed, Completed otherwise.
SummaryStatus(ok, failed, total) ==
    IF failed > 0 THEN Error(MsgConvertedWithFailures(ok, total, failed))
    ELSE Completed(MsgSuccessfullyConverted(ok, total))

SummaryEvent(b) ==
    ConversionProgress("Completed", orch[b].successful_conversions, Total(b),
                       SummaryStatus(orch[b].successful_conversions,
                                     orch[b].failed_conversions, Total(b)))

\* After the last result: the completion message is sent and the task returns.
Summary(b) ==
    /\ orch[b].pc = "tally"
    /\ orch[b].i = Total(b)
    /\ Send(b, SummaryEvent(b))
    /\ orch' = [orch EXCEPT ![b].pc = "done", ![b].exit = "summary"]
    /\ UNCHANGED <<appvars, jobvars, conversion_status, progress_rx, cancel_tx, nbatches,
                   batch_inputs, received, cancel, cancel_at, job>>

----------------------------------------------------------------------------
(* The job task spawned for input k (index k - 1) of batch b               *)

RunningEvent(b, index) ==
    ConversionProgress(FileName(b, index), index, Total(b),
                       Running(FileName(b, index), index, Total(b)))

FailedEvent(b, index) ==
    ConversionProgress(FileName(b, index), index, Total(b),
                       Error(MsgFailedToConvert(FileName(b, index))))

\* The task starts: it sends its running event and calls run_conversion_tool.
JobStart(b, k) ==
    /\ job[b][k] = "spawned"
    /\ Send(b, RunningEvent(b, k - 1))
    /\ job' = [job EXCEPT ![b][k] = "running"]
    /\ UNCHANGED <<appvars, jobvars, conversion_status, progress_rx, cancel_tx, nbatches,
                   batch_inputs, received, cancel, cancel_at, orch>>

\* A task that reports only the tool's own error.
SendsFailed_OnlyToolError(outcome) == outcome = "tool_failed"

\* The outcomes after which the task sends a failed event: run_conversion_tool
\* returned Err, or returned Ok with no file at the output path. A task that
\* succeeds, one whose fs::metadata fails after the existence check, and one
\* that panics send nothing more.
SendsFailed(outcome) == outcome \in {"tool_failed", "output_missing"}

\* run_conversion_tool returns and the task resolves.
JobFinish(b, k) ==
    /\ job[b][k] = "running"
    /\ \E outcome \in JobResolved :
         /\ job' = [job EXCEPT ![b][k] = outcome]
         /\ IF SendsFailed(outcome) THEN Send(b, FailedEvent(b, k - 1))
            ELSE UNCHANGED progress
    /\ UNCHANGED <<appvars, jobvars, conversion_status, progress_rx, cancel_tx, nbatches,
                   batch_inputs, received, cancel, cancel_at, orch>>

----------------------------------------------------------------------------

Next ==
    \/ BrowseFiles
    \/ ClearAll
    \/ SelectOutputFormat
    \/ BrowseSkeleton
    \/ HandleProgress
    \/ RunClicked
    \/ CancelClicked
    \/ \E b \in Batches : Dispatch(b)
    \/ \E b \in Batches : Tally(b)
    \/ \E b \in Batches : Summary(b)
    \/ \E b \in Batches, k \in Slots : JobStart(b, k)
    \/ \E b \in Batches, k \in Slots : JobFinish(b, k)

Spec == Init /\ [][Next]_vars

TypeOK ==
    /\ nbatches \in 0..MaxJobs
    /\ progress_rx \in 0..nbatches
    /\ cancel_tx \in 0..nbatches
    /\ \A b \in Batches : \A k \in Slots : job[b][k] \in JobStates

\* The tokio runtime runs every spawned task, and every external converter
\* process is taken to exit (a process that never exits keeps its job, and
\* with it join_all, waiting for ever).
FairSpec ==
    /\ Spec
    /\ \A b \in Batches : WF_vars(Dispatch(b)) /\ WF_vars(Tally(b)) /\ WF_vars(Summary(b))
    /\ \A b \in Batches, k \in Slots : WF_vars(JobStart(b, k)) /\ WF_vars(JobFinish(b, k))

----------------------------------------------------------------------------
(* The path resolver, as the dispatch loop of run_conversion_async calls it *)
(* for the inputs of one batch, in order. The arguments are the settings    *)
(* cloned by start_conversion; the application is left as constructed.      *)

mainvars == <<appvars, conversion_status, progress_rx, cancel_tx, chanvars, app>>

DirIn == <<RootDir, <<"in">>>>
DirInP == <<RootDir, <<"in">>, <<"p">>>>
DirInQ == <<RootDir, <<"in">>, <<"q">>>>
DirElse == <<RootDir, <<"else">>>>
DirOut == <<RootDir, <<"out">>>>

\* Input files: a.hkx in two directories, b.hkx, a.b.xml and c.
ResolverInputs ==
    { DirInP \o << <<"a", ".", "hkx">> >>,
      DirInQ \o << <<"a", ".", "hkx">> >>,
      DirInQ \o << <<"b", ".", "hkx">> >>,
      DirIn \o << <<"a", ".", "b", ".", "xml">> >>,
      DirElse \o << <<"c">> >> }

\* Lists of distinct inputs, as the file list holds them.
InputLists(files) ==
    UNION { {l \in [1..n -> files] : \A i, j \in 1..n : i # j => l[i] # l[j]} :
            n \in 1..MaxBatchLen }

ResolverSuffixes == { <<>>, <<"out">>, <<"_", "out">> }
ResolverExtensions == { None, Some(<<"txt">>) }
ResolverBases == { None, Some(DirIn), Some(DirInQ) }
ResolverOutputFolders == { DirOut, DirInP }

\* HkxToolsApp::get_output_path, which reads the input list of the
\* application: without a base folder the input's directory is taken relative
\* to the common parent directory of all the inputs.
OutputOf_ByBatch(a, k) ==
    LET input == a.input_paths[k]
        dir == unwrap_or(parent(input), <<>>)
        base_dir == IF Len(a.input_paths) = 1 THEN dir
                    ELSE unwrap_or(find_common_parent_dir(a.input_paths), <<>>)
        relative == IF a.base_folder # None THEN relative_path(input, a.base_folder)
                    ELSE unwrap_or(strip_prefix(dir, base_dir), <<>>)
    IN  IF file_stem(input) = None THEN None
        ELSE Some(join(join(a.output_folder, relative),
                       <<output_name(file_stem(input)[1], a.output_suffix,
                                     IF a.custom_extension # None THEN a.custom_extension[1]
                                     ELSE extension(a.output_format))>>))

\* let output_path = Self::get_output_path_static(...) of the dispatch loop,
\* for input k of arguments a.
OutputOf(a, k) ==
    get_output_path_static(a.input_paths[k], a.output_folder, a.output_suffix,
                           a.output_format, a.custom_extension, a.base_folder)

ResolverInit ==
    /\ Constructed
    /\ args \in { Args(l, folder, suffix, format, custom, base, "HkxCmd", None) :
                    l \in InputLists(ResolverInputs), folder \in ResolverOutputFolders,
                    suffix \in ResolverSuffixes, format \in OutputFormat,
                    custom \in ResolverExtensions, base \in ResolverBases }
    /\ output_path = <<>>
    /\ NoTasks

\* let output_path = Self::get_output_path_static(...) for the next input; a
\* None ends the loop (the `?` returns).
ResolveOutputPath ==
    /\ Len(output_path) < Len(args.input_paths)
    /\ \A i \in 1..Len(output_path) : output_path[i] # None
    /\ output_path' = Append(output_path, OutputOf(args, Len(output_path) + 1))
    /\ UNCHANGED <<mainvars, args, toolvars>>

ResolverNext == ResolveOutputPath

ResolverSpec == ResolverInit /\ [][ResolverNext]_vars

----------------------------------------------------------------------------
(* One batch followed at the level of its files: run_conversion_async      *)
(* resolves the output path of each input and spawns its job task; the     *)
(* task runs run_conversion_tool, whose external process and filesystem    *)
(* calls act on the files at the input and output paths; the results are   *)
(* counted into the completion message. The user does not cancel, and each *)
(* task's events are kept with the task (how the events of all tasks merge *)
(* on the channel is followed in Spec).                                    *)

ConverterTool == {"HkxCmd", "Hct", "HavokBehaviorPostProcess", "HkxC", "HkxConv"}

\* ConverterTool::available_output_formats
available_output_formats(tool) ==
    CASE tool = "HkxCmd" -> {"Xml", "SkyrimLE", "SkyrimSE", "Kf"}
      [] tool = "HkxC" -> {"Xml", "SkyrimLE", "SkyrimSE"}
      [] tool = "HkxConv" -> {"Xml", "SkyrimSE"}
      [] tool = "Hct" -> {"SkyrimLE"}
      [] tool = "HavokBehaviorPostProcess" -> {"SkyrimSE"}

\* Path::extension: the part after the last ".", None when file_stem is the
\* whole file name.
path_extension(p) ==
    IF file_name(p) = None THEN None
    ELSE LET name == file_name(p)[1] IN
         IF Dots(name) = {} \/ LastDot(name) = 1 THEN None
         ELSE Some(SubSeq(name, LastDot(name) + 1, Len(name)))

\* std::env::current_dir()
CurrentDir == DirIn

\* HkxToolsApp::ensure_absolute_path
ensure_absolute_path(p) == IF is_absolute(p) THEN p ELSE CurrentDir \o p

\* A file: who wrote it (0: it was there before the batch, k: the job of
\* input k) and what it holds.
Absent == [by |-> 0, data |-> "absent"]
InputFile == [by |-> 0, data |-> "input"]
OldFile == [by |-> 0, data |-> "old"]
Written(k, data) == [by |-> k, data |-> data]

\* The working directories of the Hct branch: tempfile names them
\* "hct_conversion_" and a random part, here a number. Each holds the copy of
\* the .hko file and the file the Hct process writes, "filename.hkx".
TempNames == 1..MaxBatchLen
TempDirPath(d) == <<RootDir, <<"tmp">>, <<"hct_conversion_", d>>>>
TempHkoPath(d) == TempDirPath(d) \o << <<"_", "SSEtoLE", ".", "hko">> >>
HctOutputFile(d) == TempDirPath(d) \o << <<"filename", ".", "hkx">> >>
TempPaths == UNION { {TempDirPath(d), TempHkoPath(d), HctOutputFile(d)} : d \in TempNames }

\* A tool that works in one directory, whatever is there.
tempdir_Fixed(files) == 1

\* tempfile::Builder::tempdir: a new directory under a name that no existing
\* directory has. The names are interchangeable; the first unused is taken.
tempdir(files) ==
    CHOOSE d \in TempNames :
        /\ files[TempDirPath(d)].data = "absent"
        /\ \A e \in 1..(d - 1) : files[TempDirPath(e)].data # "absent"

\* A working directory that is left behind.
TempDirDropped_Leaked(files, dir) == files

\* Drop of the TempDir when run_conversion_tool returns: the directory goes
\* with everything in it (dir is 0 when the task has created none).
TempDirDropped(files, dir) ==
    IF dir = 0 THEN files
    ELSE [p \in DOMAIN files |->
            IF p \in {TempDirPath(dir), TempHkoPath(dir), HctOutputFile(dir)}
            THEN [by |-> 0, data |-> "absent"] ELSE files[p]]

NumInputs == Len(args.input_paths)
InPath(k) == ensure_absolute_path(args.input_paths[k])
OutPath(k) == ensure_absolute_path(output_path[k][1])
Exists(p) == p \in DOMAIN fs /\ fs[p].data # "absent"
ToolFileName(k) == unwrap_or(file_name(args.input_paths[k]), <<>>)

\* The .hkx files of the batches followed, in the order of the list.
HkxInputs ==
    << DirIn \o << <<"a", ".", "hkx">> >>, DirIn \o << <<"b", ".", "hkx">> >>,
       DirIn \o << <<"c", ".", "hkx">> >>, DirIn \o << <<"e", ".", "hkx">> >> >>

ToolSuffixes == { <<>>, <<"_", "out">> }
ToolOutputFolders == { DirOut, DirIn }

\* The skeleton file: start_conversion accepts a batch of the Kf format only
\* with one.
SkeletonPath == DirIn \o << <<"skeleton", ".", "hkx">> >>
SkeletonFor(format) == IF requires_skeleton(format) THEN Some(SkeletonPath) ELSE None

\* The batches followed: up to MaxBatchLen .hkx files without an extension
\* override, one .xml file (Browse Files takes any file) with and without
\* the override "xml", and a .kf file with a .hkx file. Every tool is run for
\* every format.
ToolArgs ==
    { Args(SubSeq(HkxInputs, 1, n), folder, suffix, format, None, None, tool,
           SkeletonFor(format)) :
        n \in 1..MaxBatchLen, folder \in ToolOutputFolders, suffix \in ToolSuffixes,
        format \in OutputFormat, tool \in ConverterTool }
    \cup
    { Args(<< DirIn \o << <<"d", ".", "xml">> >> >>, folder, suffix, format, custom,
           None, tool, SkeletonFor(format)) :
        folder \in ToolOutputFolders, suffix \in ToolSuffixes, format \in OutputFormat,
        custom \in { None, Some(<<"xml">>) }, tool \in ConverterTool }
    \cup
    { Args(<< DirIn \o << <<"g", ".", "kf">> >>, HkxInputs[1] >>, folder, suffix, format,
           None, None, tool, SkeletonFor(format)) :
        folder \in ToolOutputFolders, suffix \in ToolSuffixes, format \in OutputFormat,
        tool \in ConverterTool }

\* The batch has been started on arguments of ToolArgs. Every input is a file;
\* the output paths hold files of an earlier run or nothing.
ToolInit ==
    /\ Constructed
    /\ args \in ToolArgs
    /\ output_path = <<>>
    /\ batch = [pc |-> "dispatch", exit |-> "none", summary |-> None]
    /\ task = [k \in 1..MaxBatchLen |-> NoTask]
    /\ \E old \in BOOLEAN :
         fs = [p \in {ensure_absolute_path(args.input_paths[k]) : k \in 1..Len(args.input_paths)}
                       \cup {ensure_absolute_path(OutputOf(args, k)[1]) :
                               k \in 1..Len(args.input_paths)}
                       \cup (IF args.converter_tool = "Hct" THEN TempPaths ELSE {}) |->
                 IF \E k \in 1..Len(args.input_paths) :
                        p = ensure_absolute_path(args.input_paths[k])
                 THEN InputFile
                 ELSE IF p \in TempPaths THEN Absent
                 ELSE IF old THEN OldFile ELSE Absent]

\* One iteration of the dispatch loop (no cancellation is pending): the output
\* path is resolved, its parent directory created and the job task spawned.
\* The `?` on a None path and on a failed create_dir_all returns from
\* run_conversion_async.
SpawnJob ==
    /\ batch.pc = "dispatch"
    /\ Len(output_path) < NumInputs
    /\ LET k == Len(output_path) + 1 IN
       /\ output_path' = Append(output_path, OutputOf(args, k))
       /\ IF OutputOf(args, k) = None
          THEN /\ batch' = [batch EXCEPT !.pc = "done", !.exit = "no_output_path"]
               /\ UNCHANGED task
          ELSE \E env \in DispatchEnv :
                 IF env = "ok"
                 THEN /\ task' = [task EXCEPT ![k].pc = "spawned"]
                      /\ batch' = [batch EXCEPT !.pc = IF k = NumInputs THEN "join" ELSE @]
                 ELSE /\ batch' = [batch EXCEPT !.pc = "done", !.exit = env]
                      /\ UNCHANGED task
    /\ UNCHANGED <<mainvars, args, fs>>

\* A task that takes the tool's Ok for a converted file.
TaskOutcome_TrustsTool(result, exists) == IF result = "Ok" THEN "ok" ELSE "tool_failed"

\* `match result` of the task: Ok with no file at the output path and Err are
\* failures.
TaskOutcome(result, exists) ==
    IF result = "Ok" THEN (IF exists THEN "ok" ELSE "output_missing") ELSE "tool_failed"

FailedEventOf(k) ==
    ConversionProgress(ToolFileName(k), k - 1, NumInputs,
                       Error(MsgFailedToConvert(ToolFileName(k))))

\* run_conversion_tool returns `result` to task t of input k, with `files` on
\* the disk: the task looks for the output file, sends its failed event on a
\* failure and resolves.
Returned(t, k, result, files) ==
    LET outcome == TaskOutcome(result, files[OutPath(k)].data # "absent") IN
    [t EXCEPT !.pc = "done", !.result = result,
              !.outcome = outcome,
              !.events = IF SendsFailed(outcome) THEN Append(@, FailedEventOf(k)) ELSE @]

\* What the filesystem answers on the way to the external process.
HctPrepareEnv == {"ok", "tempdir_failed", "hko_copy_failed"}
PostProcessPrepareEnv ==
    {"ok", "create_dir_failed", "copy_failed", "copy_failed_partial", "metadata_failed"}

\* A HavokBehaviorPostProcess branch without the comparison of the two paths.
SamePath_Unchecked(k) == FALSE

\* if input_absolute == output_absolute
SamePath(k) == InPath(k) = OutPath(k)

\* The task with its running event sent.
Begun(t, k) ==
    [t EXCEPT !.events =
         Append(@, ConversionProgress(ToolFileName(k), k - 1, NumInputs,
                                      Running(ToolFileName(k), k - 1, NumInputs)))]

\* The arguments of the external process: a literal, a path, or the version
\* argument "-v:...".
Lit(text) == [lit |-> text]
PathArg(p) == [path |-> p]
VersionArg(v) == [version |-> v]

\* A direction taken from the output format alone.
input_is_kf_Never(input) == FALSE

\* input_ext == "kf"
input_is_kf(input) == path_extension(input) = Some(<<"kf">>)

\* `if self.output_format == OutputFormat::Kf { ... } else { ... }`: the
\* command word.
command_word(tool, format, input) ==
    IF format = "Kf"
    THEN IF tool # "Hct"
         THEN (IF input_is_kf(input) THEN <<Lit("ConvertKF")>> ELSE <<Lit("exportkf")>>)
         ELSE <<>>
    ELSE IF tool \notin {"Hct", "HavokBehaviorPostProcess"} THEN <<Lit("convert")>> ELSE <<>>

\* format!("-v:{}", ...) of the HkxCmd branch
hkxcmd_version(format) ==
    CASE format = "Xml" -> VersionArg("XML")
      [] format = "SkyrimLE" -> VersionArg("WIN32")
      [] format \in {"SkyrimSE", "Kf"} -> VersionArg("AMD64")

\* The arguments added by `match self.converter_tool`, for the input, output
\* and skeleton paths made absolute.
tool_arguments(tool, format, input, output, skeleton) ==
    CASE tool = "HkxCmd" ->
           IF format = "Kf"
           THEN (IF skeleton # None THEN <<PathArg(skeleton[1])>> ELSE <<>>)
                \o <<PathArg(input), PathArg(output)>>
                \o (IF input_is_kf(input) THEN <<hkxcmd_version(format)>> ELSE <<>>)
           ELSE <<Lit("-i"), PathArg(input), Lit("-o"), PathArg(output),
                  hkxcmd_version(format)>>
      [] tool = "HkxC" ->
           <<Lit("--input"), PathArg(input), Lit("--output"), PathArg(output), Lit("--format"),
             Lit(CASE format = "Xml" -> "xml" [] format = "SkyrimLE" -> "win32"
                   [] OTHER -> "amd64")>>
      [] tool = "HkxConv" ->
           <<PathArg(input), PathArg(output), Lit("-v"),
             Lit(IF format = "Xml" THEN "xml" ELSE "hkx")>>
      [] tool = "Hct" -> <<PathArg(input), Lit("-s"), Lit("_SSEtoLE.hko")>>
      [] tool = "HavokBehaviorPostProcess" ->
           <<Lit("--platformAmd64"), PathArg(output), PathArg(output)>>

\* The argument vector of the process of input k.
CommandArgs(k) ==
    command_word(args.converter_tool, args.output_format, InPath(k))
    \o tool_arguments(args.converter_tool, args.output_format, InPath(k), OutPath(k),
                      IF args.skeleton_file = None THEN None
                      ELSE Some(ensure_absolute_path(args.skeleton_file[1])))

\* The task with its running event sent and its command built, about to run
\* the external process.
Launching(t, k) == [Begun(t, k) EXCEPT !.pc = "exec", !.command = CommandArgs(k)]

\* The task starts: it sends its running event and calls run_conversion_tool,
\* which runs `match self.converter_tool` up to the call of the external
\* process: the checks of the branch and, for Hct and
\* HavokBehaviorPostProcess, the files it prepares.
TaskStart(k) ==
    /\ task[k].pc = "spawned"
    /\ \/ /\ args.converter_tool = "HkxCmd"
          /\ task' = [task EXCEPT ![k] = Launching(@, k)]
          /\ UNCHANGED fs
       \/ /\ args.converter_tool \in {"HkxC", "HkxConv"}
          /\ task' = [task EXCEPT ![k] =
                        IF args.output_format = "Kf"
                        THEN Returned(Begun(@, k), k, "unsupported", fs)
                        ELSE Launching(@, k)]
          /\ UNCHANGED fs
       \/ /\ args.converter_tool = "Hct"
          /\ IF args.output_format = "Kf"
             THEN /\ task' = [task EXCEPT ![k] = Returned(Begun(@, k), k, "unsupported", fs)]
                  /\ UNCHANGED fs
             ELSE \E env \in HctPrepareEnv :
                    IF env = "tempdir_failed"
                    THEN /\ task' = [task EXCEPT ![k] =
                                       Returned(Begun(@, k), k, "io_failed", fs)]
                         /\ UNCHANGED fs
                    ELSE LET d == tempdir(fs)
                             created == [fs EXCEPT ![TempDirPath(d)] = Written(k, "dir")]
                         IN
                           IF env = "hko_copy_failed"
                           THEN /\ fs' = TempDirDropped(created, d)
                                /\ task' = [task EXCEPT ![k] =
                                              Returned([Begun(@, k) EXCEPT !.temp_dir = d],
                                                       k, "io_failed", fs')]
                           ELSE /\ fs' = [created EXCEPT ![TempHkoPath(d)] = Written(k, "hko")]
                                /\ task' = [task EXCEPT ![k] =
                                              [Launching(@, k) EXCEPT !.temp_dir = d]]
       \/ /\ args.converter_tool = "HavokBehaviorPostProcess"
          /\ IF args.output_format = "Kf"
             THEN /\ task' = [task EXCEPT ![k] = Returned(Begun(@, k), k, "unsupported", fs)]
                  /\ UNCHANGED fs
             ELSE IF path_extension(InPath(k)) # Some(<<"hkx">>)
             THEN /\ task' = [task EXCEPT ![k] = Returned(Begun(@, k), k, "requires_hkx", fs)]
                  /\ UNCHANGED fs
             ELSE IF SamePath(k)
             THEN /\ task' = [task EXCEPT ![k] = Returned(Begun(@, k), k, "same_path", fs)]
                  /\ UNCHANGED fs
             ELSE \E env \in PostProcessPrepareEnv :
                    /\ fs' = CASE env \in {"ok", "metadata_failed"} ->
                                    [fs EXCEPT ![OutPath(k)] = Written(k, fs[InPath(k)].data)]
                               [] env = "copy_failed_partial" ->
                                    [fs EXCEPT ![OutPath(k)] = Written(k, "partial")]
                               [] OTHER -> fs
                    /\ task' = [task EXCEPT ![k] =
                                  IF env = "ok" THEN Launching(@, k)
                                  ELSE Returned(Begun(@, k), k, "io_failed", fs')]
    /\ UNCHANGED <<mainvars, args, output_path, batch>>

\* How the external process ends and what it has done to the file it was told
\* to write (for Hct: to filename.hkx in its working directory).
ProcessExits == {"success", "failure"}
ProcessEffects == {"writes", "partial", "nothing", "deletes"}

AfterProcess(file, k, effect) ==
    CASE effect = "writes" -> Written(k, "converted")
      [] effect = "partial" -> Written(k, "partial")
      [] effect = "deletes" -> Absent
      [] OTHER -> file

\* fs::metadata(..).len(): the length of a file goes with what it holds.
file_len(file) == file.data

\* A check that takes the unchanged length for a failure.
size_check_Strict(out_file, in_file) ==
    IF out_file.data = "absent" \/ in_file.data = "absent" THEN "io_failed"
    ELSE IF file_len(out_file) = file_len(in_file) THEN "size_unchanged"
    ELSE "Ok"

\* The check of the HavokBehaviorPostProcess branch after a successful exit:
\* the metadata of the output and of the input are read (an error when the
\* file is missing) and the two lengths compared; either way of the
\* comparison only prints a line.
size_check(out_file, in_file) ==
    IF out_file.data = "absent" \/ in_file.data = "absent" THEN "io_failed"
    ELSE "Ok"

\* command.output().await and what follows it in run_conversion_tool, except
\* the move of the Hct output: the process cannot be launched, or it runs and
\* exits; a non-zero exit is an error; HavokBehaviorPostProcess then reads the
\* metadata of the output; Hct then looks for filename.hkx.
ToolProcess(k) ==
    /\ task[k].pc = "exec"
    /\ \/ /\ fs' = TempDirDropped(fs, task[k].temp_dir)
          /\ task' = [task EXCEPT ![k] =
                        Returned([@ EXCEPT !.exit = "launch_failed"], k, "launch_failed", fs')]
       \/ \E exit \in ProcessExits, effect \in ProcessEffects :
            IF args.converter_tool = "Hct"
            THEN LET d == task[k].temp_dir
                     after == [fs EXCEPT ![HctOutputFile(d)] = AfterProcess(@, k, effect)]
                 IN  /\ effect \in {"writes", "nothing"}
                     /\ IF exit = "failure"
                        THEN /\ fs' = TempDirDropped(after, d)
                             /\ task' = [task EXCEPT ![k] =
                                           Returned([@ EXCEPT !.exit = exit], k,
                                                    "exit_failed", fs')]
                        ELSE IF after[HctOutputFile(d)].data = "absent"
                        THEN /\ fs' = TempDirDropped(after, d)
                             /\ task' = [task EXCEPT ![k] =
                                           Returned([@ EXCEPT !.exit = exit], k,
                                                    "hct_output_missing", fs')]
                        ELSE /\ fs' = after
                             /\ task' = [task EXCEPT ![k] =
                                           [@ EXCEPT !.exit = exit, !.pc = "move"]]
            ELSE /\ fs' = [fs EXCEPT ![OutPath(k)] = AfterProcess(@, k, effect)]
                 /\ task' = [task EXCEPT ![k] =
                               IF exit = "failure"
                               THEN Returned([@ EXCEPT !.exit = exit], k, "exit_failed", fs')
                               ELSE Returned([@ EXCEPT !.exit = exit], k,
                                             IF args.converter_tool = "HavokBehaviorPostProcess"
                                             THEN size_check(fs'[OutPath(k)], fs'[InPath(k)])
                                             ELSE "Ok",
                                             fs')]
    /\ UNCHANGED <<mainvars, args, output_path, batch>>

\* What the filesystem answers while the Hct output is moved into place.
HctMoveEnv ==
    {"renamed", "create_dir_failed", "remove_failed", "copied", "copy_failed",
     "copy_failed_partial", "copied_remove_temp_failed"}

\* A move that leaves the files where they are.
HctMoved_Nothing(files, k, d) == files

\* fs::rename of filename.hkx to the output path, or fs::copy and
\* fs::remove_file: the output path holds the file that was in the working
\* directory, which holds it no more.
HctMoved(files, k, d) ==
    [files EXCEPT ![OutPath(k)] = files[HctOutputFile(d)], ![HctOutputFile(d)] = Absent]

\* The Hct branch after its process: the parent directory is created, a file
\* at the output path is removed, filename.hkx is renamed to the output path
\* or, when the rename fails, copied there and removed.
ToolMove(k) ==
    /\ task[k].pc = "move"
    /\ \E env \in HctMoveEnv :
         LET d == task[k].temp_dir
             moved ==
               CASE env \in {"create_dir_failed", "remove_failed"} -> fs
                 [] env \in {"renamed", "copied"} -> HctMoved(fs, k, d)
                 [] env = "copied_remove_temp_failed" ->
                      [fs EXCEPT ![OutPath(k)] = fs[HctOutputFile(d)]]
                 [] env = "copy_failed" -> [fs EXCEPT ![OutPath(k)] = Absent]
                 [] env = "copy_failed_partial" ->
                      [fs EXCEPT ![OutPath(k)] = Written(k, "partial")]
         IN  /\ env = "remove_failed" => Exists(OutPath(k))
             /\ fs' = TempDirDropped(moved, d)
             /\ task' = [task EXCEPT ![k] =
                           Returned([@ EXCEPT !.removed_existing =
                                         env \notin {"create_dir_failed", "remove_failed"}
                                         /\ Exists(OutPath(k))],
                                    k, IF env \in {"renamed", "copied"} THEN "Ok"
                                       ELSE "io_failed", fs')]
    /\ UNCHANGED <<mainvars, args, output_path, batch>>

TaskSucceeded(k) == IsSuccess(task[k].outcome)

\* join_all has every result; they are counted and the completion message sent.
JoinAndSummarize ==
    /\ batch.pc = "join"
    /\ \A k \in 1..NumInputs : task[k].pc = "done"
    /\ LET ok == Cardinality({k \in 1..NumInputs : TaskSucceeded(k)})
           failed == Cardinality({k \in 1..NumInputs : ~TaskSucceeded(k)})
       IN  batch' = [batch EXCEPT
                       !.pc = "done", !.exit = "summary",
                       !.summary = Some(ConversionProgress("Completed", ok, NumInputs,
                                                           SummaryStatus(ok, failed, NumInputs)))]
    /\ UNCHANGED <<mainvars, args, output_path, task, fs>>

ToolNext ==
    \/ SpawnJob
    \/ \E k \in 1..MaxBatchLen : TaskStart(k)
    \/ \E k \in 1..MaxBatchLen : ToolProcess(k)
    \/ \E k \in 1..MaxBatchLen : ToolMove(k)
    \/ JoinAndSummarize

ToolSpec == ToolInit /\ [][ToolNext]_vars

----------------------------------------------------------------------------
(* The file list and the selections of the window, up to the start of one  *)
(* batch: the handlers of render_main_ui, handle_dropped_files and the     *)
(* validation of start_conversion, on the files and folders of a disk. The *)
(* output suffix and the extension override are left empty.                *)

InputFileExtension == {"All", "Hkx", "Xml", "Kf"}

\* ConverterTool::supports_extension
supports_extension(tool, ext) ==
    CASE tool = "HkxCmd" -> ext \in {<<"hkx">>, <<"xml">>, <<"kf">>}
      [] tool \in {"HkxC", "HkxConv"} -> ext \in {<<"hkx">>, <<"xml">>}
      [] tool \in {"Hct", "HavokBehaviorPostProcess"} -> ext \in {<<"hkx">>}

\* ConverterTool::supports_file
supports_file(tool, path) ==
    path_extension(path) # None /\ supports_extension(tool, path_extension(path)[1])

\* ConverterTool::available_input_extensions
available_input_extensions(tool) ==
    CASE tool = "HkxCmd" -> {"All", "Hkx", "Xml", "Kf"}
      [] tool \in {"HkxC", "HkxConv"} -> {"All", "Hkx", "Xml"}
      [] tool \in {"Hct", "HavokBehaviorPostProcess"} -> {"All", "Hkx"}

\* A reset that always takes the Xml format.
first_output_format_Xml(tool) == "Xml"

\* available_formats[0]
first_output_format(tool) ==
    CASE tool \in {"HkxCmd", "HkxC", "HkxConv"} -> "Xml"
      [] tool = "Hct" -> "SkyrimLE"
      [] tool = "HavokBehaviorPostProcess" -> "SkyrimSE"

\* The files of the disk, in the order read_dir and WalkDir give them, and its
\* folders.
DiskFiles ==
    << DirIn \o << <<"a", ".", "hkx">> >>, DirIn \o << <<"d", ".", "xml">> >>,
       DirInP \o << <<"b", ".", "hkx">> >> >>
DiskFolders == {DirIn, DirInP}

\* Path::is_file
is_file(path) == \E i \in 1..Len(DiskFiles) : DiskFiles[i] = path

Contains(list, path) == \E i \in 1..Len(list) : list[i] = path

\* HkxToolsApp::file_matches_filter
file_matches_filter(a, path) ==
    /\ is_file(path)
    /\ CASE a.input_file_extension = "All" -> supports_file(a.converter_tool, path)
         [] a.input_file_extension = "Hkx" -> path_extension(path) = Some(<<"hkx">>)
         [] a.input_file_extension = "Xml" -> path_extension(path) = Some(<<"xml">>)
         [] a.input_file_extension = "Kf" -> path_extension(path) = Some(<<"kf">>)

\* HkxToolsApp::add_file: true when the path was pushed.
add_file_result(a, path) == file_matches_filter(a, path) /\ ~Contains(a.input_paths, path)

\* An add_file that does not look for the path in the list.
add_file_NoDedup(a, path) ==
    IF file_matches_filter(a, path) THEN [a EXCEPT !.input_paths = Append(@, path)] ELSE a

add_file(a, path) ==
    IF add_file_result(a, path) THEN [a EXCEPT !.input_paths = Append(@, path)] ELSE a

\* The loops of add_files_non_recursive, add_files_recursive and
\* handle_dropped_files over the entries of a folder, from entry i on.
RECURSIVE add_files(_, _, _)
add_files(a, paths, i) ==
    IF i > Len(paths) THEN a ELSE add_files(add_file(a, paths[i]), paths, i + 1)

\* fs::read_dir(folder) and walkdir::WalkDir::new(folder)
InFolder(path, folder) == parent(path) = Some(folder)
UnderFolder(path, folder) == parent(path) # None /\ starts_with(parent(path)[1], folder)
read_dir(folder) == SelectSeq(DiskFiles, LAMBDA f : InFolder(f, folder))
WalkDir(folder) == SelectSeq(DiskFiles, LAMBDA f : UnderFolder(f, folder))

\* An update that does not look at the flag.
update_output_folder_Always(a) ==
    IF Len(a.input_paths) > 0
    THEN [a EXCEPT !.output_folder = Some(unwrap_or(parent(a.input_paths[1]), <<>>))]
    ELSE a

\* HkxToolsApp::update_output_folder, on the fields of the application
update_output_folder_of(a) ==
    IF ~a.output_folder_manually_set /\ Len(a.input_paths) > 0
    THEN [a EXCEPT !.output_folder = Some(unwrap_or(parent(a.input_paths[1]), <<>>))]
    ELSE a

\* HkxToolsApp::add_files_from_folder
add_files_from_folder(a, folder, recursive) ==
    add_files([a EXCEPT !.base_folder = Some(folder)],
              IF recursive THEN WalkDir(folder) ELSE read_dir(folder), 1)

\* The loop of handle_dropped_files over the dropped paths, from path i on: a
\* file is added, a folder becomes the base folder and its files are added.
RECURSIVE dropped_from(_, _, _)
dropped_from(a, dropped, i) ==
    IF i > Len(dropped) THEN a
    ELSE IF is_file(dropped[i]) THEN dropped_from(add_file(a, dropped[i]), dropped, i + 1)
    ELSE IF dropped[i] \in DiskFolders
    THEN dropped_from(add_files([a EXCEPT !.base_folder = Some(dropped[i])],
                                read_dir(dropped[i]), 1),
                      dropped, i + 1)
    ELSE dropped_from(a, dropped, i + 1)

\* HkxToolsApp::handle_dropped_files: the output folder is updated when a file
\* was added.
handle_dropped_files(a, dropped) ==
    IF Len(dropped_from(a, dropped, 1).input_paths) > Len(a.input_paths)
    THEN update_output_folder_of(dropped_from(a, dropped, 1))
    ELSE dropped_from(a, dropped, 1)

\* What the file dialog of Browse Files returns: some files of the disk, in
\* the order of the disk.
PickedFiles ==
    { SelectSeq(DiskFiles, LAMBDA f : f \in chosen) :
        chosen \in (SUBSET {DiskFiles[i] : i \in 1..Len(DiskFiles)}) \ {{}} }

\* What is dropped on the window: one or two files or folders.
DroppedItems == {DiskFiles[i] : i \in 1..Len(DiskFiles)} \cup DiskFolders
DroppedLists ==
    { <<x>> : x \in DroppedItems }
    \cup { pair \in DroppedItems \X DroppedItems : pair[1] # pair[2] }

\* The handlers act on the window until the batch is started.
uirest == <<appvars, progress_rx, cancel_tx, chanvars, output_path, toolvars>>
NotStarted == args = NoArgs

\* Converter Tool: a click on a tool
ClickTool ==
    /\ NotStarted
    /\ \E tool \in ConverterTool :
         app' = [app EXCEPT
                   !.converter_tool = tool,
                   !.input_file_extension =
                       IF @ \in available_input_extensions(tool) THEN @ ELSE "Hkx",
                   !.output_format =
                       IF @ \in available_output_formats(tool) THEN @
                       ELSE first_output_format(tool)]
    /\ UNCHANGED <<uirest, conversion_status, args>>

\* Input File Filter: a click on one of the filters of the selected tool
ClickFilter ==
    /\ NotStarted
    /\ \E filter \in available_input_extensions(app.converter_tool) :
         app' = [app EXCEPT !.input_file_extension = filter]
    /\ UNCHANGED <<uirest, conversion_status, args>>

\* Browse Files: the picked files replace the list.
PickFiles ==
    /\ NotStarted
    /\ \E paths \in PickedFiles :
         app' = update_output_folder_of([app EXCEPT !.input_paths = paths,
                                                    !.base_folder = None])
    /\ UNCHANGED <<uirest, conversion_status, args>>

\* Select Folder and Select Folder (+ Subfolders)
SelectFolder ==
    /\ NotStarted
    /\ \E folder \in DiskFolders, recursive \in BOOLEAN :
         app' = update_output_folder_of(add_files_from_folder(app, folder, recursive))
    /\ UNCHANGED <<uirest, conversion_status, args>>

\* Files or folders are dropped on the window.
DropFiles ==
    /\ NotStarted
    /\ \E dropped \in DroppedLists : app' = handle_dropped_files(app, dropped)
    /\ UNCHANGED <<uirest, conversion_status, args>>

\* The button of a file in the list: the file is removed.
RemoveFile ==
    /\ NotStarted
    /\ \E index \in 1..Len(app.input_paths) :
         app' = [app EXCEPT !.input_paths =
                     SubSeq(@, 1, index - 1) \o SubSeq(@, index + 1, Len(@))]
    /\ UNCHANGED <<uirest, conversion_status, args>>

\* Clear All
ClearList ==
    /\ NotStarted
    /\ app' = [app EXCEPT !.input_paths = <<>>, !.base_folder = None,
                          !.output_folder_manually_set = FALSE]
    /\ UNCHANGED <<uirest, conversion_status, args>>

\* Output Folder: Browse
PickOutputFolder ==
    /\ NotStarted
    /\ app' = [app EXCEPT !.output_folder = Some(DirOut),
                          !.output_folder_manually_set = TRUE]
    /\ UNCHANGED <<uirest, conversion_status, args>>

\* render_output_format: a click on one of the formats of the selected tool
ClickFormat ==
    /\ NotStarted
    /\ \E format \in available_output_formats(app.converter_tool) :
         app' = [app EXCEPT !.output_format = format]
    /\ UNCHANGED <<uirest, conversion_status, args>>

\* Skeleton File: Browse (the row is shown for a format that requires it)
PickSkeleton ==
    /\ NotStarted
    /\ requires_skeleton(app.output_format)
    /\ app' = [app EXCEPT !.skeleton_file = Some(SkeletonPath)]
    /\ UNCHANGED <<uirest, conversion_status, args>>

\* The validation of start_conversion on the fields of the application.
ValidationOf(a) ==
    IF Len(a.input_paths) = 0 THEN MsgNoInput
    ELSE IF a.output_folder = None THEN MsgNoOutput
    ELSE IF requires_skeleton(a.output_format) /\ a.skeleton_file = None THEN MsgNoSkeleton
    ELSE <<>>

\* RUN CONVERSION: start_conversion rejects the request, or clones the
\* settings for run_conversion_async.
StartBatch ==
    /\ NotStarted
    /\ IF ValidationOf(app) # <<>>
       THEN /\ conversion_status' = Error(ValidationOf(app))
            /\ UNCHANGED args
       ELSE /\ conversion_status' = Running("Starting...", 0, Len(app.input_paths))
            /\ args' = Args(app.input_paths, app.output_folder[1], <<>>, app.output_format,
                            None, app.base_folder, app.converter_tool, app.skeleton_file)
    /\ UNCHANGED <<uirest, app>>

UiInit ==
    /\ Constructed
    /\ args = NoArgs
    /\ output_path = <<>>
    /\ NoTasks

UiNext ==
    \/ ClickTool
    \/ ClickFilter
    \/ PickFiles
    \/ SelectFolder
    \/ DropFiles
    \/ RemoveFile
    \/ ClearList
    \/ PickOutputFolder
    \/ ClickFormat
    \/ PickSkeleton
    \/ StartBatch

UiSpec == UiInit /\ [][UiNext]_vars

----------------------------------------------------------------------------

(* Reading the progress stream of a batch                                  *)

IsSummary(ev) == ev.current_file = "Completed"
IsCancelled(ev) == ev.current_file = "Cancelled"
IsRunningOf(ev, index) == ev.status.kind = "Running" /\ ev.file_index = index
IsFailedOf(ev, index) ==
    /\ ev.status.kind = "Error"
    /\ ev.status.message[1] = "Failed to convert"
    /\ ev.file_index = index

Positions(b) == 1..Len(progress[b])
Summaries(b) == {p \in Positions(b) : IsSummary(progress[b][p])}
Cancelleds(b) == {p \in Positions(b) : IsCancelled(progress[b][p])}
RunningsOf(b, index) == {p \in Positions(b) : IsRunningOf(progress[b][p], index)}
FailedsOf(b, index) == {p \in Positions(b) : IsFailedOf(progress[b][p], index)}

Started(b) == b \in 1..nbatches
Dispatched(b) == {k \in 1..Total(b) : job[b][k] # "none"}
CancelRequested(b) == cancel_at[b].pc # "none"

----------------------------------------------------------------------------
(* Validation of the batch                                                 *)

\* The requests the claim says are rejected.
Rejected ==
    \/ Len(input_paths) = 0
    \/ output_folder = "None"
    \/ (output_format = "Kf" /\ skeleton_file = "None")

\* C1: while the settings are ones start_conversion must reject (no input, no
\* output folder, or a skeleton-requiring format without a skeleton), no step
\* creates a channel, spawns an orchestrator or a job task or sends an event,
\* and the only status a step can set is one validation Error.
C1_RejectedUpFront ==
    [][Rejected =>
          /\ nbatches' = nbatches
          /\ progress_rx' = 0
          /\ cancel_tx' = 0
          /\ orch' = orch
          /\ job' = job
          /\ progress' = progress
          /\ cancel' = cancel
          /\ (conversion_status' # conversion_status =>
                \E m \in ValidationMessages : conversion_status' = Error(m))]_vars

\* A skeleton-requiring format was run without a skeleton: the status is the
\* validation error and nothing was started.
C1_Witness ==
    /\ conversion_status = Error(MsgNoSkeleton)
    /\ output_format = "Kf"
    /\ input_paths # <<>>
    /\ nbatches = 0
    /\ progress_rx = 0

----------------------------------------------------------------------------
(* The summary event                                                       *)

\* C2: a batch that passed validation, whose orchestrator has returned and
\* for which no cancellation was requested, has exactly one summary event on
\* its stream; that event is the last one and every job task has resolved.
C2_ExactlyOneSummary ==
    \A b \in Batches :
        (Started(b) /\ orch[b].pc = "done" /\ ~CancelRequested(b)) =>
            /\ Cardinality(Summaries(b)) = 1
            /\ IsSummary(Last(progress[b]))
            /\ Dispatched(b) = 1..Total(b)
            /\ AllResolved(b)

\* C4: the failure of one job, or a filesystem error met while preparing one
\* input, fails only that job: when the orchestrator has returned without
\* having observed a cancellation, every input was dispatched, every job ran
\* to its outcome and the stream holds the summary.
C4_FailureStaysInItsJob ==
    \A b \in Batches :
        (Started(b) /\ orch[b].pc = "done"
            /\ orch[b].exit \notin {"cancelled_in_dispatch", "cancelled_in_tally"}) =>
            /\ \A k \in 1..Total(b) : job[b][k] \in JobResolved
            /\ Summaries(b) # {}

----------------------------------------------------------------------------
(* The events of one job                                                   *)

JobEventsAsSent(b, k) ==
    /\ Cardinality(RunningsOf(b, k - 1)) =
           IF job[b][k] \in {"none", "spawned"} THEN 0 ELSE 1
    /\ Cardinality(FailedsOf(b, k - 1)) =
           IF job[b][k] \in {"tool_failed", "output_missing"} THEN 1 ELSE 0
    /\ \A r \in RunningsOf(b, k - 1) : progress[b][r] = RunningEvent(b, k - 1)
    /\ \A f \in FailedsOf(b, k - 1) : progress[b][f] = FailedEvent(b, k - 1)

----------------------------------------------------------------------------
(* Cancellation                                                            *)

\* A spawned task is detached: whatever the orchestrator does, the task can
\* take its next step.
NotAborted(b, k) ==
    /\ job[b][k] = "spawned" => ENABLED JobStart(b, k)
    /\ job[b][k] = "running" => ENABLED JobFinish(b, k)

\* C5: when the cancel signal was sent before the orchestrator polled it for
\* the first input, no job task is ever spawned, and once the orchestrator
\* has polled, the stream holds exactly one event, the cancelled event: no
\* running, failed or summary event.
C5_CancelBeforeFirstInput ==
    \A b \in Batches :
        (cancel_at[b].pc = "dispatch" /\ cancel_at[b].i = 0) =>
            /\ Dispatched(b) = {}
            /\ \/ /\ orch[b].pc = "dispatch"
                  /\ orch[b].i = 0
                  /\ progress[b] = <<>>
               \/ /\ orch[b].pc = "done"
                  /\ orch[b].exit = "cancelled_in_dispatch"
                  /\ Len(progress[b]) = 1
                  /\ IsCancelled(progress[b][1])
                  /\ progress[b][1].status = Error(MsgCancelledByUser)
                  /\ progress[b][1].file_index = 0
                  /\ Summaries(b) = {}

\* The orchestrator of a two-input batch has returned on a cancellation sent
\* before its first poll.
C5_Witness ==
    \E b \in Batches :
        /\ Total(b) = 2
        /\ cancel_at[b] = [pc |-> "dispatch", i |-> 0]
        /\ orch[b].pc = "done"
        /\ Len(progress[b]) = 1
        /\ Dispatched(b) = {}

\* C6 as stated: a cancellation requested after every job was dispatched,
\* while the orchestrator still runs, keeps the summary off the stream.
C6_LateCancelSuppressesSummary ==
    \A b \in Batches : cancel_at[b].pc = "tally" => Summaries(b) = {}

\* C6 (amended): a cancellation requested after every job was dispatched and
\* before the orchestrator's last poll of the signal (the poll that precedes
\* the counting of the last job result) kills no job, and once the jobs have
\* all resolved the orchestrator sends one cancelled event and no summary. A
\* request that comes after that last poll does not suppress the summary.
C6_CancelBeforeLastPoll ==
    \A b \in Batches :
        /\ (cancel_at[b].pc = "tally" /\ cancel_at[b].i < Total(b)) =>
              /\ Summaries(b) = {}
              /\ Dispatched(b) = 1..Total(b)
              /\ \A k \in 1..Total(b) : NotAborted(b, k)
              /\ orch[b].pc = "done" =>
                    /\ orch[b].exit = "cancelled_in_tally"
                    /\ AllResolved(b)
                    /\ Cardinality(Cancelleds(b)) = 1
                    /\ Last(progress[b]).status = Error(MsgCancelled)
        /\ (cancel_at[b].pc = "tally" /\ cancel_at[b].i = Total(b) /\ orch[b].pc = "done") =>
              /\ orch[b].exit = "summary"
              /\ Cardinality(Summaries(b)) = 1

\* A batch cancelled while its jobs were still running ended with the
\* cancelled event after every job had reached its own outcome.
C6_Witness ==
    \E b \in Batches :
        /\ cancel_at[b].pc = "tally"
        /\ cancel_at[b].i < Total(b)
        /\ orch[b].exit = "cancelled_in_tally"
        /\ Total(b) = 2
        /\ job[b][1] = "ok"
        /\ job[b][2] = "tool_failed"

\* C7: the jobs dispatched are those of an initial segment of the inputs; a
\* cancellation observed before input k is dispatched leaves exactly the
\* inputs before k dispatched and puts one cancelled event, carrying k, on
\* the stream; the jobs dispatched before are not aborted; no stream ever
\* holds two cancelled events.
C7_CancelStopsDispatch ==
    \A b \in Batches :
        /\ Dispatched(b) = 1..Cardinality(Dispatched(b))
        /\ Cardinality(Cancelleds(b)) <= 1
        /\ \A k \in Dispatched(b) : NotAborted(b, k)
        /\ \A p \in Cancelleds(b) :
              progress[b][p].status = Error(MsgCancelledByUser) =>
                 /\ Dispatched(b) = 1..progress[b][p].file_index
                 /\ orch[b].pc = "done"
        /\ orch[b].exit = "cancelled_in_dispatch" =>
              /\ Cardinality(Cancelleds(b)) = 1
              /\ Dispatched(b) = 1..orch[b].i

\* The cancellation was observed before the second input: the first job was
\* dispatched and has finished, the second never was.
C7_Witness ==
    \E b \in Batches :
        /\ Total(b) = 2
        /\ orch[b].exit = "cancelled_in_dispatch"
        /\ orch[b].i = 1
        /\ job[b][1] \in JobResolved
        /\ job[b][2] = "none"
        /\ Cardinality(Cancelleds(b)) = 1

----------------------------------------------------------------------------
(* The status shown by the application                                     *)

Terminal(st) == st.kind \in {"Completed", "Error"}

IsValidationError(st) == st.kind = "Error" /\ st.message \in ValidationMessages
IsJobFailure(st) == st.kind = "Error" /\ st.message[1] = "Failed to convert"
IsCancelNotice(st) == st.kind = "Error" /\ st.message \in {MsgCancelledByUser, MsgCancelled}
IsSummaryStatus(st) ==
    \/ st.kind = "Completed"
    \/ st.kind = "Error" /\ st.message[1] = "Converted"

\* C8: the status follows Idle -> Running -> {Completed | Failed | Cancelled}.
\* A Running status is left only for the batch's terminal outcome (its summary
\* is consumed, or the user cancels); no event of one job makes the status
\* terminal while a dispatched job of the batch is unresolved; a terminal
\* status is left only by starting a new batch.
C8_StatusMachine ==
    [][/\ (conversion_status.kind = "Running" /\ conversion_status'.kind # "Running") =>
              \/ conversion_status' = Idle
              \/ IsSummaryStatus(conversion_status')
              \/ IsCancelNotice(conversion_status')
       /\ (conversion_status' # conversion_status /\ IsJobFailure(conversion_status')) =>
              \A k \in 1..Total(progress_rx') : job'[progress_rx'][k] \in {"none"} \cup JobResolved
       /\ (Terminal(conversion_status) /\ conversion_status' # conversion_status) =>
              \/ nbatches' = nbatches + 1
              \/ IsValidationError(conversion_status')]_vars

----------------------------------------------------------------------------
(* The counts of the summary                                               *)

Succeeded(b) == {k \in 1..Total(b) : job[b][k] = "ok"}
Failed(b) == {k \in 1..Total(b) : job[b][k] \in JobResolved \ {"ok"}}

SummaryConsumed(b) ==
    /\ orch[b].exit = "summary"
    /\ progress_rx = b
    /\ received[b] = Len(progress[b])

\* C9 as stated: a batch in which some jobs succeeded and some failed ends in
\* the Completed state.
C9_MixedBatchCompleted ==
    \A b \in Batches :
        (orch[b].exit = "summary" /\ Succeeded(b) # {} /\ Failed(b) # {}) =>
            /\ Last(progress[b]).status.kind = "Completed"
            /\ SummaryConsumed(b) => conversion_status.kind = "Completed"

\* C9 (amended): the summary of a batch in which a job failed is an Error
\* status whose message gives the succeeded, total and failed counts; the
\* summary is a Completed status only when no job failed. Once the summary is
\* consumed it is the status of the application.
C9_SummaryStatus ==
    \A b \in Batches :
        orch[b].exit = "summary" =>
            /\ Failed(b) # {} =>
                  Last(progress[b]).status =
                      [kind |-> "Error",
                       message |-> <<"Converted", Cardinality(Succeeded(b)), Total(b),
                                     "failed", Cardinality(Failed(b))>>]
            /\ Failed(b) = {} =>
                  Last(progress[b]).status =
                      [kind |-> "Completed",
                       message |-> <<"Successfully converted", Total(b), Total(b)>>]
            /\ SummaryConsumed(b) => conversion_status = Last(progress[b]).status

\* The summary of a batch with one succeeded and one failed job was consumed
\* and the application shows an Error status.
C9_Witness ==
    \E b \in Batches :
        /\ SummaryConsumed(b)
        /\ Cardinality(Succeeded(b)) = 1
        /\ Cardinality(Failed(b)) = 1
        /\ conversion_status.kind = "Error"

\* C10: in every summary event succeeded + failed is the number of inputs,
\* succeeded is the number of jobs whose tool returned success with the output
\* file in place, and failed is the number of all other jobs, panicked tasks
\* included.
C10_SummaryCounts ==
    \A b \in Batches : \A p \in Summaries(b) :
        /\ orch[b].successful_conversions + orch[b].failed_conversions = Total(b)
        /\ orch[b].successful_conversions = Cardinality(Succeeded(b))
        /\ orch[b].failed_conversions = Cardinality(Failed(b))
        /\ progress[b][p].file_index = Cardinality(Succeeded(b))
        /\ progress[b][p].total_files = Total(b)
        /\ progress[b][p].status.message[2] = Cardinality(Succeeded(b))

\* A summary was sent for a batch with one succeeded job and one panicked task.
C10_Witness ==
    \E b \in Batches :
        /\ Summaries(b) # {}
        /\ \E k1, k2 \in 1..Total(b) : job[b][k1] = "ok" /\ job[b][k2] = "panicked"

----------------------------------------------------------------------------
(* The resolved output paths                                               *)

\* The inputs of the batch resolved so far (to Some path).
ResolvedInputs == {i \in 1..Len(output_path) : output_path[i] # None}

\* The base folder is set and is the input's parent directory or an ancestor
\* of it.
UnderBase(i) ==
    /\ args.base_folder # None
    /\ starts_with(unwrap_or(parent(args.input_paths[i]), <<>>), args.base_folder[1])

\* C11: every resolved output path lies inside the output root, and an input
\* whose parent directory is not under the (set) base folder is placed
\* directly in the output root.
C11_InsideOutputRoot ==
    \A i \in ResolvedInputs :
        /\ starts_with(output_path[i][1], args.output_folder)
        /\ (args.base_folder # None /\ ~UnderBase(i)) =>
               parent(output_path[i][1]) = Some(args.output_folder)

\* C12: when the base folder is the input's parent directory or an ancestor of
\* it, the directory of the output path is the output root followed by the
\* components of the input's parent directory below the base folder.
C12_MirrorsUnderBase ==
    \A i \in ResolvedInputs :
        UnderBase(i) =>
            LET dir == parent(args.input_paths[i])[1] IN
            parent(output_path[i][1]) =
                Some(args.output_folder
                       \o SubSeq(dir, Len(args.base_folder[1]) + 1, Len(dir)))

\* An input two levels below its base folder was resolved, next to one in the
\* base folder itself.
C12_Witness ==
    /\ args.base_folder = Some(DirIn)
    /\ \E i, j \in ResolvedInputs :
         /\ parent(args.input_paths[i]) = Some(DirInQ)
         /\ parent(args.input_paths[j]) = Some(DirIn)

\* The default extension of each format, as the specification lists them.
DefaultExtension(format) ==
    IF format = "Xml" THEN <<"xml">>
    ELSE IF format = "Kf" THEN <<"kf">>
    ELSE <<"hkx">>

\* C13: the file name of the output path is stem.ext for an empty suffix and
\* stem_suffix.ext otherwise, with the input's file stem and with the
\* extension override when there is one, else the format's default extension.
C13_OutputFileName ==
    \A i \in ResolvedInputs :
        LET stem == file_stem(args.input_paths[i])[1]
            ext == IF args.custom_extension = None
                   THEN DefaultExtension(args.output_format)
                   ELSE args.custom_extension[1]
        IN  file_name(output_path[i][1]) =
                Some(IF args.output_suffix = <<>>
                     THEN stem \o <<".">> \o ext
                     ELSE stem \o <<"_">> \o args.output_suffix \o <<".">> \o ext)

\* a.b.xml was resolved with a suffix and the Kf format's own extension.
C13_Witness ==
    /\ args.output_suffix = <<"out">>
    /\ args.custom_extension = None
    /\ args.output_format = "Kf"
    /\ \E i \in ResolvedInputs :
         /\ file_name(args.input_paths[i]) = Some(<<"a", ".", "b", ".", "xml">>)
         /\ file_name(output_path[i][1]) = Some(<<"a", ".", "b", "_", "out", ".", "kf">>)

\* C15: without a base folder, an input of a batch of several is placed under
\* the output root in its parent directory relative to the common parent
\* directory of the batch's inputs, and the input of a batch of one directly
\* in the output root.
C15_CommonAncestorFallback ==
    \A i \in ResolvedInputs :
        args.base_folder = None =>
            IF Len(args.input_paths) = 1
            THEN parent(output_path[i][1]) = Some(args.output_folder)
            ELSE LET common == unwrap_or(find_common_parent_dir(args.input_paths), <<>>)
                     dir == unwrap_or(parent(args.input_paths[i]), <<>>)
                 IN  parent(output_path[i][1]) =
                         Some(join(args.output_folder,
                                   unwrap_or(strip_prefix(dir, common), <<>>)))

----------------------------------------------------------------------------
(* The files and results of a batch                                        *)

FileAt(p) == IF p \in DOMAIN fs THEN fs[p] ELSE Absent

\* The jobs of the batch whose task has entered run_conversion_tool.
Entered == {k \in 1..NumInputs : task[k].pc \notin {"none", "spawned"}}
Done == {k \in 1..NumInputs : task[k].pc = "done"}

\* Three .hkx inputs, a tool that produces Xml, the suffix "_out", no base
\* folder and no extension override.
ThreeHkxToXml ==
    /\ args.input_paths = SubSeq(HkxInputs, 1, 3)
    /\ args.output_format = "Xml"
    /\ "Xml" \in available_output_formats(args.converter_tool)
    /\ args.output_suffix = <<"_", "out">>
    /\ args.base_folder = None
    /\ args.custom_extension = None

\* Every external process of the batch has succeeded and written its output.
AllProcessesWrote ==
    \A k \in 1..NumInputs :
        /\ task[k].pc = "done"
        /\ task[k].exit = "success"
        /\ fs[OutPath(k)] = Written(k, "converted")

ReportsAllSucceeded ==
    batch.summary =
        Some(ConversionProgress("Completed", 3, 3, Completed(MsgSuccessfullyConverted(3, 3))))

\* The statement of C14 as the specification words it: the three outputs are
\* named stem_out.xml.
C14_ThreeOutputs ==
    (ThreeHkxToXml /\ batch.pc = "done" /\ AllProcessesWrote) =>
        /\ \A k \in 1..3 :
             FileAt(args.output_folder
                      \o << file_stem(args.input_paths[k])[1] \o <<"_", "out", ".", "xml">> >>)
                 = Written(k, "converted")
        /\ ReportsAllSucceeded

\* C14: in a batch of three .hkx inputs with a tool producing Xml, the suffix
\* "_out" and no base folder, once every external process has succeeded and
\* written its output, the three outputs lie directly in the output root under
\* the names stem__out.xml (the separator "_" is put before the suffix "_out")
\* and the batch ends with the summary of 3 succeeded of 3, none failed.
C14_ThreeOutputsNamed ==
    (ThreeHkxToXml /\ batch.pc = "done" /\ AllProcessesWrote) =>
        /\ \A k \in 1..3 :
             FileAt(args.output_folder
                      \o << file_stem(args.input_paths[k])[1]
                              \o <<"_", "_", "out", ".", "xml">> >>)
                 = Written(k, "converted")
        /\ ReportsAllSucceeded

C14_Witness ==
    /\ ThreeHkxToXml
    /\ batch.exit = "summary"
    /\ AllProcessesWrote
    /\ args.output_folder = DirOut

FailsAtOnce(k) ==
    /\ task'[k].pc = "done"
    /\ task'[k].outcome = "tool_failed"
    /\ task'[k].exit = "none"
    /\ fs' = fs
    /\ batch' = batch
    /\ \A j \in 1..NumInputs : j # k => task'[j] = task[j]

C18_NothingLeftOnFailure ==
    \A k \in Done :
        ( /\ args.output_format \in available_output_formats(args.converter_tool)
          /\ task[k].outcome # "ok" ) => fs[OutPath(k)].by # k

\* The number of jobs of the batch that did not succeed.
NumFailed == Cardinality({k \in 1..NumInputs : ~TaskSucceeded(k)})

\* C19: a job whose external process exited with success and at whose output
\* path no file exists has resolved as failed, its failed event is the last
\* event it sent, and the summary of its batch counts it among the failed.
C19_MissingOutputFails ==
    \A k \in Done :
        (task[k].exit = "success" /\ ~Exists(OutPath(k))) =>
            /\ task[k].outcome \in {"output_missing", "tool_failed"}
            /\ Last(task[k].events) = FailedEventOf(k)
            /\ batch.summary # None =>
                 /\ NumFailed >= 1
                 /\ batch.summary[1].status =
                        Error(MsgConvertedWithFailures(NumInputs - NumFailed, NumInputs,
                                                       NumFailed))

\* The process of a job exited with success without leaving a file, while the
\* process of another job of the batch wrote its output; the summary is out.
C19_Witness ==
    /\ batch.summary # None
    /\ \E k, j \in Done :
         /\ task[k].exit = "success" /\ ~Exists(OutPath(k))
         /\ task[k].result = "Ok"
         /\ task[j].outcome = "ok"

\* C20: the failed event of a job whose tool failed and the failed event of a
\* job whose output was missing differ in their status, so that the cause can
\* be read from the event.
C20_FailedEventCarriesCause ==
    \A b1, b2 \in Batches :
        \A k1 \in 1..Total(b1), k2 \in 1..Total(b2) :
            (job[b1][k1] = "tool_failed" /\ job[b2][k2] = "output_missing") =>
                \A p1 \in FailedsOf(b1, k1 - 1), p2 \in FailedsOf(b2, k2 - 1) :
                    progress[b1][p1].status # progress[b2][p2].status


----------------------------------------------------------------------------
(* The working directories of the Hct jobs                                 *)

\* The files of working directory d: the directory, the .hko copy and the
\* file the process writes.
TempFiles(d) == {TempDirPath(d), TempHkoPath(d), HctOutputFile(d)}

\* The jobs that are between the creation of their working directory and
\* their return.
InTempDir == {k \in 1..NumInputs : task[k].pc \in {"exec", "move"} /\ task[k].temp_dir # 0}

C22_PrivateTempDir ==
    /\ \A k, j \in InTempDir : k # j => task[k].temp_dir # task[j].temp_dir
    /\ \A k \in InTempDir :
         /\ fs[TempDirPath(task[k].temp_dir)] = Written(k, "dir")
         /\ fs[TempHkoPath(task[k].temp_dir)] = Written(k, "hko")
         /\ fs[HctOutputFile(task[k].temp_dir)].by \in {0, k}
         /\ task[k].pc = "move" => fs[HctOutputFile(task[k].temp_dir)] = Written(k, "converted")
    /\ \A k \in Done :
         (args.converter_tool = "Hct" /\ task[k].result = "Ok") => fs[OutPath(k)].by = k

\* Two Hct jobs have each their filename.hkx in their working directories
\* while a third has moved its own to its output path.
C22_Witness ==
    \E k, j \in InTempDir, l \in Done :
        /\ k # j
        /\ task[k].pc = "move" /\ task[j].pc = "move"
        /\ task[l].result = "Ok" /\ task[l].temp_dir # 0

\* C23: an Hct job that has returned success (its process exited with success
\* and left filename.hkx, the parent directory of the output was created, a
\* file already at the output path was removed and filename.hkx was renamed
\* or copied there) has at its output path the file its process produced and
\* not the file that was there before, the working directory holds that file
\* no more, and the job counts as succeeded.
C23_MovedIntoPlace ==
    \A k \in Done :
        (args.converter_tool = "Hct" /\ task[k].result = "Ok") =>
            /\ task[k].exit = "success"
            /\ fs[OutPath(k)] = Written(k, "converted")
            /\ fs[HctOutputFile(task[k].temp_dir)].by # k
            /\ task[k].outcome = "ok"

\* An Hct job has returned success after removing the file that was at its
\* output path.
C23_Witness ==
    \E k \in Done :
        /\ args.converter_tool = "Hct"
        /\ task[k].result = "Ok"
        /\ task[k].removed_existing
        /\ fs[OutPath(k)] = Written(k, "converted")


----------------------------------------------------------------------------
(* The command of the hkxcmd jobs of the Kf format                         *)

IsVersionArg(arg) == "version" \in DOMAIN arg

\* C24: the command of an hkxcmd job of the Kf format is chosen by the
\* extension of its input: for a .kf input the command word is ConvertKF and
\* the command ends with a "-v:" version argument; for any other input the
\* command is exportkf, the skeleton path, the input path and the output path,
\* in this order, with no version argument.
C24_KfDirection ==
    \A k \in Entered :
        (args.converter_tool = "HkxCmd" /\ args.output_format = "Kf") =>
            IF path_extension(InPath(k)) = Some(<<"kf">>)
            THEN /\ task[k].command[1] = Lit("ConvertKF")
                 /\ IsVersionArg(Last(task[k].command))
            ELSE /\ task[k].command =
                        <<Lit("exportkf"),
                          PathArg(ensure_absolute_path(args.skeleton_file[1])),
                          PathArg(InPath(k)), PathArg(OutPath(k))>>
                 /\ \A i \in 1..Len(task[k].command) : ~IsVersionArg(task[k].command[i])

\* A .kf input and a .hkx input of one hkxcmd batch of the Kf format have
\* both had their process run.
C24_Witness ==
    /\ args.converter_tool = "HkxCmd" /\ args.output_format = "Kf"
    /\ \E k, j \in Done :
         /\ path_extension(InPath(k)) = Some(<<"kf">>)
         /\ path_extension(InPath(j)) = Some(<<"hkx">>)
         /\ task[k].exit = "success" /\ task[j].exit = "success"
         /\ task[k].command[1] = Lit("ConvertKF")
         /\ task[j].command[1] = Lit("exportkf")


----------------------------------------------------------------------------
(* The size check of the HavokBehaviorPostProcess jobs                     *)

\* C29: a HavokBehaviorPostProcess job whose process exited with success and
\* whose output file has the length of its input file has returned Ok and
\* counts as succeeded.
C29_UnchangedSizeSucceeds ==
    \A k \in Done :
        ( /\ args.converter_tool = "HavokBehaviorPostProcess"
          /\ task[k].exit = "success"
          /\ Exists(OutPath(k))
          /\ file_len(fs[OutPath(k)]) = file_len(fs[InPath(k)]) ) =>
            /\ task[k].result = "Ok"
            /\ task[k].outcome = "ok"
            /\ batch.summary # None => NumFailed < NumInputs

\* The process of a HavokBehaviorPostProcess job exited with success and left
\* the copy of the input as it was; the job succeeded and the summary is out.
C29_Witness ==
    /\ args.converter_tool = "HavokBehaviorPostProcess"
    /\ args.output_format = "SkyrimSE"
    /\ batch.summary # None
    /\ \E k \in Done :
         /\ task[k].exit = "success"
         /\ fs[OutPath(k)] = Written(k, "input")
         /\ fs[InPath(k)] = InputFile
         /\ task[k].outcome = "ok"


----------------------------------------------------------------------------
(* The resolver as a function of its arguments                             *)

\* The arguments of the batch with input i alone, and with the inputs in the
\* opposite order.
Alone(i) == [args EXCEPT !.input_paths = <<args.input_paths[i]>>]
Reversed == [args EXCEPT !.input_paths = [j \in 1..Len(@) |-> @[Len(@) + 1 - j]]]

----------------------------------------------------------------------------
(* Dispatch of the jobs and the end of the batch                           *)

\* The statement of C25: in a batch for which no cancellation was requested,
\* the jobs are spawned in the order of the inputs, each running event carries
\* the 0-based position of its input and the number of inputs, and when the
\* orchestrator has left the dispatch loop (it awaits the tasks, or has
\* returned) a task has been spawned for every input.
C25_AllSpawnedBeforeJoin ==
    \A b \in Batches :
        (Started(b) /\ ~CancelRequested(b)) =>
            /\ \A k \in Dispatched(b) : 1..k \subseteq Dispatched(b)
            /\ \A k \in 1..Total(b) : \A r \in RunningsOf(b, k - 1) :
                 /\ progress[b][r].current_file = batch_inputs[b][k]
                 /\ progress[b][r].total_files = Total(b)
            /\ orch[b].pc \in {"tally", "done"} => Dispatched(b) = 1..Total(b)

\* C26: whatever the receiver has or has not taken from the stream, and
\* whether or not it is still held, a spawned task can take its next step and
\* an orchestrator in its dispatch loop can go on; every dispatched job runs
\* to its outcome and every orchestrator returns.
C26_ProducersNeverBlock ==
    /\ [](\A b \in Batches :
            /\ \A k \in 1..Total(b) : NotAborted(b, k)
            /\ (orch[b].pc = "dispatch" /\ orch[b].i < Total(b)) => ENABLED Dispatch(b)
            /\ (orch[b].pc = "tally" /\ AllResolved(b)) => ENABLED (Tally(b) \/ Summary(b)))
    /\ \A b \in Batches :
         [](Started(b) =>
              <>(/\ orch[b].pc = "done"
                 /\ \A k \in 1..Total(b) : job[b][k] \in {"none"} \cup JobResolved))

\* The orchestrator of a batch has sent its summary, every job of it has
\* resolved, and the receiver has taken none of its events; the receiver of an
\* earlier batch was dropped with events of that batch not taken.
C26_Witness ==
    \E b1, b2 \in Batches :
        /\ b1 # b2
        /\ Started(b1) /\ progress_rx = b2
        /\ orch[b1].pc = "done" /\ received[b1] < Len(progress[b1])
        /\ orch[b2].exit = "summary" /\ AllResolved(b2)
        /\ received[b2] = 0 /\ Len(progress[b2]) >= 2

\* The statement of C28: a summary is sent only when every job of the batch
\* has resolved, a job whose process has not exited has sent no failed event
\* and holds back no other job; and every batch for which no cancellation is
\* requested has its summary sent in the end, given that every process exits.
C28_NoTimeout ==
    /\ [](\A b \in Batches :
            /\ Summaries(b) # {} => AllResolved(b)
            /\ \A k \in 1..Total(b) :
                 job[b][k] \in {"spawned", "running"} =>
                     (FailedsOf(b, k - 1) = {} /\ NotAborted(b, k)))
    /\ \A b \in Batches : [](Started(b) => <>(Summaries(b) # {} \/ CancelRequested(b)))


----------------------------------------------------------------------------
(* The inputs of a started batch and the selected tool                     *)

\* C27: every input of a batch that was started has an extension that the
\* tool of the batch accepts.
C27_InputsAccepted ==
    \A k \in 1..Len(args.input_paths) : supports_file(args.converter_tool, args.input_paths[k])


----------------------------------------------------------------------------
(* The order of the events on the stream of a batch                        *)

JobEvents(b) ==
    {p \in Positions(b) : ~IsSummary(progress[b][p]) /\ ~IsCancelled(progress[b][p])}

\* C31: on the stream of every batch, which the receiver takes in the order
\* of sending, the running event of a job stands before its failed event; the
\* running event of a job is on the stream while its tool runs and its failed
\* event as soon as the task has resolved, whatever the other jobs do; and
\* when no cancellation was requested every event of a job stands before the
\* summary.
C31_EventsInOrder ==
    \A b \in Batches :
        /\ received[b] <= Len(progress[b])
        /\ \A k \in 1..Total(b) :
             /\ \A f \in FailedsOf(b, k - 1) : \E r \in RunningsOf(b, k - 1) : r < f
             /\ job[b][k] = "running" => RunningsOf(b, k - 1) # {}
             /\ job[b][k] \in {"tool_failed", "output_missing"} => FailedsOf(b, k - 1) # {}
        /\ ~CancelRequested(b) =>
             \A s \in Summaries(b) : \A p \in JobEvents(b) : p < s

\* The receiver has taken every event of a batch of two for which no
\* cancellation was requested: the failed event of the second job stands
\* after the running event of the first and before its failed event, and the
\* summary was sent.
C31_Witness ==
    \E b \in Batches :
        /\ ~CancelRequested(b)
        /\ Total(b) = 2
        /\ Summaries(b) # {}
        /\ received[b] = Len(progress[b])
        /\ \E f \in FailedsOf(b, 1) : \E r \in RunningsOf(b, 0) :
             r < f /\ \A g \in FailedsOf(b, 0) : f < g
        /\ FailedsOf(b, 0) # {}


----------------------------------------------------------------------------
(* The output paths of the inputs of one batch                             *)

\* C32: the output paths resolved for two different inputs of a batch are
\* different, so that no two jobs of the batch work on one output file.
C32_DistinctOutputs ==
    \A i, j \in 1..Len(output_path) :
        (i # j /\ args.input_paths[i] # args.input_paths[j]) => output_path[i] # output_path[j]


----------------------------------------------------------------------------
(* A job whose output path is its input path                               *)

\* C33: a job whose resolved output path equals its input path launches no
\* process, leaves the input file as it was, and fails.
C33_InputNeverOutput ==
    \A k \in 1..Len(output_path) :
        (output_path[k] # None /\ SamePath(k)) =>
            /\ task[k].command = <<>>
            /\ task[k].pc \notin {"exec", "move"}
            /\ fs[InPath(k)] = InputFile
            /\ task[k].pc = "done" => task[k].outcome # "ok"


----------------------------------------------------------------------------
(* Batches in flight                                                       *)

\* C34: a batch is started only when every job task of the batches started
\* before it has resolved.
C34_OneBatchInFlight ==
    [][nbatches' = nbatches + 1 =>
          \A b \in 1..nbatches : \A k \in 1..Total(b) :
              job[b][k] \notin {"spawned", "running"}]_vars


----------------------------------------------------------------------------
(* The status after a cancel                                               *)

\* C35: the step in which the user cancels a batch leaves the status Idle,
\* and from then on, as long as no new batch is started, the status changes
\* only to the cancelled notice of that batch: no event of its jobs changes it.
C35_CancelledStaysIdle ==
    [][\A b \in Batches :
          /\ (~CancelRequested(b) /\ CancelRequested(b)') => conversion_status' = Idle
          /\ (CancelRequested(b) /\ progress_rx = b /\ progress_rx' = b) =>
                \/ conversion_status' = conversion_status
                \/ IsCancelNotice(conversion_status')]_vars


----------------------------------------------------------------------------
(* The channels of an earlier batch                                        *)

\* C36: the start of a batch leaves the application with the receiver and
\* the cancel sender of that batch; the events of a batch are taken only
\* through the receiver the application holds, so none of an earlier batch is
\* taken once a new batch was started; and a batch sees a cancellation only
\* when the user has clicked the cancel button for it, never because its
\* sender was dropped.
C36_ChannelsReplaced ==
    /\ [][/\ nbatches' = nbatches + 1 =>
                (progress_rx' = nbatches' /\ cancel_tx' = nbatches')
          /\ \A b \in Batches :
                received'[b] # received[b] => (b = progress_rx /\ b = nbatches)]_vars
    /\ [](\A b \in Batches :
            (\/ cancel[b] \in {"sent", "taken"}
             \/ Cancelleds(b) # {}
             \/ orch[b].exit \in {"cancelled_in_dispatch", "cancelled_in_tally"}) =>
                CancelRequested(b))

\* A second batch was started and events of it were taken: the sender of
\* the first batch was dropped unused, the first ended with its summary, and
\* events of it were left on its stream untaken.
C36_Witness ==
    /\ nbatches = 2 /\ progress_rx = 2 /\ cancel_tx = 2
    /\ cancel[1] = "closed"
    /\ orch[1].exit = "summary"
    /\ received[1] < Len(progress[1])
    /\ received[2] > 0


----------------------------------------------------------------------------
(* The format of a started batch and the selected tool                     *)

\* C37: the selected format is always one the selected tool produces: a click
\* on a tool keeps the format when the tool produces it and otherwise takes
\* the first format of the tool; so a batch is started with a format of its
\* tool, and a batch of the Kf format is one of hkxcmd.
C37_FormatAvailable ==
    /\ [](/\ app.output_format \in available_output_formats(app.converter_tool)
          /\ args.output_format \in available_output_formats(args.converter_tool)
          /\ requires_skeleton(args.output_format) => args.converter_tool = "HkxCmd")
    /\ [][app'.converter_tool # app.converter_tool =>
            app'.output_format =
                IF app.output_format \in available_output_formats(app'.converter_tool)
                THEN app.output_format
                ELSE first_output_format(app'.converter_tool)]_vars

\* A batch was started for Hct with SkyrimLE, the only format of that tool
\* (the application starts with hkxcmd and Xml).
C37_Witness ==
    /\ Len(args.input_paths) > 0
    /\ args.converter_tool = "Hct"
    /\ args.output_format = "SkyrimLE"


----------------------------------------------------------------------------
(* The cancel channel of a batch                                           *)

\* C38: for every batch, the user's cancel is issued at most once, through
\* the sender the application holds, which is the one of the batch started
\* last, and the sender is gone with it; a signal is put on the channel only
\* by that cancel, and only on a channel that never held one; the
\* orchestrator takes the signal at most once and has returned with the step
\* that takes it, after which it does nothing more; so no stream holds two
\* cancelled events.
C38_CancelOneShot ==
    /\ [][\A b \in Batches :
            /\ cancel_at'[b] # cancel_at[b] =>
                  /\ cancel_at[b].pc = "none"
                  /\ cancel_tx = b /\ b = nbatches
                  /\ cancel_tx' = 0
            /\ (cancel'[b] = "sent" /\ cancel[b] # "sent") =>
                  (cancel[b] = "empty" /\ cancel_at'[b] # cancel_at[b])
            /\ cancel[b] \in {"taken", "closed"} => cancel'[b] = cancel[b]
            /\ (cancel'[b] = "taken" /\ cancel[b] # "taken") =>
                  (cancel[b] = "sent" /\ orch'[b].pc = "done")
            /\ orch[b].pc = "done" => orch'[b] = orch[b]]_vars
    /\ [](\A b \in Batches :
            /\ Cardinality(Cancelleds(b)) <= 1
            /\ cancel[b] = "taken" => Cardinality(Cancelleds(b)) = 1)

\* Two batches were cancelled, each by its own click, and each orchestrator
\* took its signal and returned with one cancelled event.
C38_Witness ==
    /\ nbatches = 2
    /\ \A b \in 1..2 :
         /\ cancel[b] = "taken"
         /\ orch[b].pc = "done"
         /\ Cardinality(Cancelleds(b)) = 1


----------------------------------------------------------------------------
(* The file list                                                           *)

NoDuplicates(list) == \A i, j \in 1..Len(list) : i # j => list[i] # list[j]

\* The paths handed to add_file: the files and folders of the disk and a path
\* at which there is nothing.
AddedPaths ==
    {DiskFiles[i] : i \in 1..Len(DiskFiles)} \cup DiskFolders
    \cup {DirIn \o << <<"z", ".", "hkx">> >>}

\* C39: the file list never holds a path twice; and add_file, for the list
\* and the selections of every state and every path, returns true and appends
\* that path when the path is a file, matches the filter and is not in the
\* list, and otherwise returns false and leaves the list as it is.
C39_NoDuplicates ==
    /\ NoDuplicates(app.input_paths)
    /\ \A path \in AddedPaths :
         IF is_file(path) /\ file_matches_filter(app, path)
            /\ \A i \in 1..Len(app.input_paths) : app.input_paths[i] # path
         THEN /\ add_file_result(app, path)
              /\ add_file(app, path) = [app EXCEPT !.input_paths = app.input_paths \o <<path>>]
         ELSE /\ ~add_file_result(app, path)
              /\ add_file(app, path) = app

\* The list holds the three files of the disk, the one of the subfolder
\* first, under the base folder /in: the subfolder was added, then the files
\* of /in.
C39_Witness ==
    /\ app.input_paths = <<DiskFiles[3], DiskFiles[1], DiskFiles[2]>>
    /\ app.base_folder = Some(DirIn)


----------------------------------------------------------------------------
(* The output folder chosen by the user                                    *)

\* C40: while the flag of the manual choice is set, no step that changes the
\* file list changes the output folder; the flag is reset only by Clear All,
\* which empties the list and keeps the folder; and while the flag is not
\* set, a step that makes the list longer leaves the output folder at the
\* parent directory of the first file of the list.
C40_ManualFolderKept ==
    [][/\ app.output_folder_manually_set =>
            (app'.output_folder = app.output_folder \/ app'.input_paths = app.input_paths)
       /\ (app.output_folder_manually_set /\ ~app'.output_folder_manually_set) =>
            (app'.input_paths = <<>> /\ app'.output_folder = app.output_folder)
       /\ (~app.output_folder_manually_set /\ ~app'.output_folder_manually_set
           /\ Len(app'.input_paths) > Len(app.input_paths)) =>
            app'.output_folder = Some(unwrap_or(parent(app'.input_paths[1]), <<>>))]_vars

\* The flag is set and the output folder is /out, the folder the user chose,
\* while the list holds the three files of the disk, added from the folder
\* /in and its subfolder.
C40_Witness ==
    /\ app.output_folder_manually_set
    /\ app.output_folder = Some(DirOut)
    /\ Len(app.input_paths) = 3
    /\ app.base_folder = Some(DirIn)

====
